---- MODULE Spec2Model ----
(***************************************************************************)
(* Model of the EU AI Act compliance analyzer                              *)
(* (src/src/analysis/compliance_analyzer.py).                              *)
(*                                                                         *)
(* Texts (documentation chunks, oracle responses, narratives) are          *)
(* sequences of symbols.  A symbol is an indivisible piece of text: a      *)
(* word or word part ("citizen", "rank", "s"), a digit ("0" .. "9"), a     *)
(* punctuation character ("." ":" "/" "%") or a white-space character      *)
(* (" " or "\n").  Regular expressions of the source are sequences of      *)
(* elements over these symbols and are matched the way re.search matches:  *)
(* anywhere in the text, "." not crossing a newline.                       *)
(***************************************************************************)
EXTENDS Integers, Sequences, FiniteSets, TLC

(***************************************************************************)
(* Bounds of the model.                                                    *)
(***************************************************************************)
\* Largest number of documentation chunks in user_docs.
MaxChunks == 2
\* Largest number of pieces an oracle narrative is put together from.
MaxPieces == 2
\* Largest number of files in the user documentation directory.
MaxFiles == 2
\* Largest number of categories in a detailed_analysis given to
\* _identify_compliance_gaps on its own.
MaxGapCategories == 2

(***************************************************************************)
(* State.                                                                  *)
(***************************************************************************)
VARIABLES
    pc,            \* where the run of main or of analyze_compliance stands
    files,         \* the files of the user documentation directory, each the
                   \* chunks it is split into (main only)
    top_k,         \* the top_k argument of analyze_compliance
    user_docs,     \* the texts of the documentation chunks, in order
    initial_type,  \* what _determine_system_type_improved returned
    system_type,   \* the local system_type of analyze_compliance
    documentary_evidence_of_prohibition,
    results,       \* the results dictionary
    next_category, \* index of the category the loop analyses next
    total_score,   \* the local total_score
    todo,          \* categories _generate_recommendations has still to do
    saved,         \* the saved analysis file: <<>> or <<results>>
    llm_calls,     \* the calls of self.llm.invoke made so far, in order
    retrieve_calls, \* the calls of self.retriever.retrieve made so far
    get_prompt_calls, \* the prompt names get_prompt was called with so far
    narrative,     \* the response_text a call of _extract_score is given
    extracted,     \* what that call returned, "pending" before it returns
    prompt_source, \* what reading prompts.pdf gives in this process
    _PROMPTS_CACHE, \* the module's cache: <<>> for None, <<prompts>> once set
    update_calls,  \* the calls of update_classification_prompts made so far
    prompt_text,   \* what the last call of get_prompt returned
    output_file,   \* eu_ai_act_chunks.json exists
    vector_ids_file, \* eu_ai_act_vector_ids.json exists
    namespace,     \* the copies of the chunks held by the namespace "eu_ai_act"
    reference_runs \* the runs of process_eu_ai_act so far, with their calls

\* The state of the prompt module and that of the reference store.
prompt_vars == <<prompt_source, _PROMPTS_CACHE, update_calls, prompt_text>>
reference_vars == <<output_file, vector_ids_file, namespace, reference_runs>>

vars == <<pc, files, top_k, user_docs, initial_type, system_type, documentary_evidence_of_prohibition,
          results, next_category, total_score, todo, saved, llm_calls, retrieve_calls,
          get_prompt_calls, narrative, extracted, prompt_vars, reference_vars>>

(***************************************************************************)
(* Text helpers.                                                           *)
(***************************************************************************)
WhiteSpace == {" ", "\n"}
\* The symbols made of characters that are not word characters (\W).
NonWord == {" ", "\n", ".", ",", ":", "/", "%", "(", ")", "-", "*"}

\* str.lower() on one symbol: the symbols that carry upper-case letters.
LowerSym(s) ==
    CASE s = "Social"     -> "social"
      [] s = "ServiceBot" -> "servicebot"
      [] s = "MediScan"   -> "mediscan"
      [] s = "MRI"        -> "mri"
      [] s = "CT"         -> "ct"
      [] s = "ShopSmart"  -> "shopsmart"
      [] s = "Citizen"    -> "citizen"
      [] s = "Rank"       -> "rank"
      [] s = "Compliance" -> "compliance"
      [] s = "Score"      -> "score"
      [] s = "Classif"    -> "classif"
      [] s = "Add"        -> "add"
      [] s = "Review"     -> "review"
      [] s = "Train"      -> "train"
      [] OTHER            -> s

\* str.lower() on a text.
Lower(text) == [i \in 1..Len(text) |-> LowerSym(text[i])]

\* Words written one after the other with single blanks between them; the
\* marker "+" glues its two neighbours together without a blank ("ticket" "+"
\* "s" is the text "tickets").
RECURSIVE Words(_)
Words(ws) ==
    IF Len(ws) = 0 THEN <<>>
    ELSE IF Len(ws) = 1 THEN <<ws[1]>>
    ELSE IF ws[2] = "+" THEN <<ws[1]>> \o Words(SubSeq(ws, 3, Len(ws)))
    ELSE IF ws[1] = "+" THEN Words(Tail(ws))
    ELSE <<ws[1], " ">> \o Words(Tail(ws))

\* "\n\n".join(texts)
RECURSIVE JoinChunks(_)
JoinChunks(texts) ==
    IF Len(texts) = 0 THEN <<>>
    ELSE IF Len(texts) = 1 THEN texts[1]
    ELSE texts[1] \o <<"\n", "\n">> \o JoinChunks(Tail(texts))

(***************************************************************************)
(* Regular expressions.  A pattern is a sequence of elements:              *)
(*   Lit(s)   the literal text s                                           *)
(*   WS       one or more white-space characters                           *)
(*   ANY      dot-star, lazy or greedy: any characters except a newline    *)
(*   Alt(S)   an alternation of the literals in S                          *)
(*   Opt(s)   an optional literal s                                        *)
(***************************************************************************)
Lit(s) == [t |-> "lit", s |-> {s}]
Alt(S) == [t |-> "lit", s |-> S]
Opt(s) == [t |-> "opt", s |-> {s}]
WS     == [t |-> "ws",  s |-> {}]
ANY    == [t |-> "any", s |-> {}]
\* \s*, ^, $ (the text is stripped: no trailing newline) and \b
WS0    == [t |-> "ws0", s |-> {}]
BOS    == [t |-> "bos", s |-> {}]
EOS    == [t |-> "eos", s |-> {}]
WB     == [t |-> "wb",  s |-> {}]
\* [0-9] and [^0-9]*
Digits    == {"0", "1", "2", "3", "4", "5", "6", "7", "8", "9"}
Digit     == [t |-> "lit", s |-> Digits]
NonDigits == [t |-> "nd",  s |-> {}]

\* The literal text "w1 w2 ... wn", single blanks between the words.
RECURSIVE Literal(_)
Literal(ws) ==
    IF Len(ws) = 0 THEN <<>>
    ELSE IF Len(ws) = 1 THEN <<Lit(ws[1])>>
    ELSE <<Lit(ws[1]), Lit(" ")>> \o Literal(Tail(ws))

\* w1\s+w2\s+...\s+wn
RECURSIVE Phrase(_)
Phrase(ws) ==
    IF Len(ws) = 0 THEN <<>>
    ELSE IF Len(ws) = 1 THEN <<Lit(ws[1])>>
    ELSE <<Lit(ws[1]), WS>> \o Phrase(Tail(ws))

\* A word boundary lies at position p: exactly one of the symbols on its two
\* sides is made of word characters (the ends of the text count as non-word).
IsBoundary(text, p) ==
    LET before == p >= 1 /\ text[p] \notin NonWord
        after  == p < Len(text) /\ text[p + 1] \notin NonWord
    IN  before # after

\* The positions a match can end at after one more element, from the
\* positions P it can have reached before it (position p: p symbols consumed).
StepEl(el, text, P) ==
    LET n == Len(text) IN
    CASE el.t = "lit" -> {p + 1 : p \in {q \in P : q < n /\ text[q + 1] \in el.s}}
      [] el.t = "opt" -> P \cup {p + 1 : p \in {q \in P : q < n /\ text[q + 1] \in el.s}}
      [] el.t = "ws"  -> {q \in 1..n : \E p \in P : p < q /\ \A j \in (p + 1)..q : text[j] \in WhiteSpace}
      [] el.t = "any" -> {q \in 0..n : \E p \in P : p <= q /\ \A j \in (p + 1)..q : text[j] # "\n"}
      [] el.t = "ws0" -> {q \in 0..n : \E p \in P : p <= q /\ \A j \in (p + 1)..q : text[j] \in WhiteSpace}
      [] el.t = "bos" -> P \cap {0}
      [] el.t = "eos" -> P \cap {n}
      [] el.t = "wb"  -> {p \in P : IsBoundary(text, p)}
      [] el.t = "nd"  -> {q \in 0..n : \E p \in P : p <= q /\ \A j \in (p + 1)..q : text[j] \notin Digits}

RECURSIVE MatchEnds(_, _, _, _)
MatchEnds(pat, k, text, P) ==
    IF k > Len(pat) \/ P = {} THEN P
    ELSE MatchEnds(pat, k + 1, text, StepEl(pat[k], text, P))

\* re.search(pattern, text) finds a match
re_search(pat, text) == MatchEnds(pat, 1, text, 0..Len(text)) # {}

(***************************************************************************)
(* Pattern library of the heuristic pre-check: (pattern, weight) pairs.    *)
(***************************************************************************)
social_scoring_indicators == <<
    <<Phrase(<<"social", "credit", "system">>), 10>>,
    <<Phrase(<<"social", "scoring", "system">>), 10>>,
    <<Phrase(<<"citizen", "score">>), 8>>,
    <<Phrase(<<"citizen", "rank">>), 8>>,
    <<<<Lit("citizen"), Lit("rank")>>, 8>>,
    <<<<Lit("evaluate"), WS, Lit("citizen"), Lit("s"), ANY, Lit("behavior")>>, 7>>,
    <<<<Lit("rate"), WS, Lit("citizen"), Lit("s"), WS, Lit("based"), WS, Lit("on")>>, 7>>,
    <<<<Lit("social"), WS, Lit("behavior"), ANY, Lit("score")>>, 7>>,
    <<<<Lit("score"), ANY, Lit("public"), WS, Lit("service"), Lit("s")>>, 6>>,
    <<<<Lit("numeric"), Lit("al"), WS, Lit("score"), ANY, Lit("citizen")>>, 6>>,
    <<Phrase(<<"access", "based", "on", "score">>), 5>>,
    <<Phrase(<<"behavior", "score">>), 5>>,
    <<<<Lit("travel"), WS, Lit("restriction"), ANY, Lit("score")>>, 8>> >>

limited_risk_indicators == <<
    <<<<Lit("chatbot")>>, 5>>,
    <<<<Lit("customer"), WS, Lit("service"), WS, Alt({"ai", "assistant", "agent"})>>, 6>>,
    <<<<Lit("customer"), WS, Lit("support"), WS, Alt({"ai", "assistant", "agent"})>>, 6>>,
    <<<<Lit("servicebot")>>, 7>>,
    <<<<Lit("conversation"), Opt("al"), WS, Lit("ai")>>, 5>>,
    <<Phrase(<<"virtual", "assistant">>), 5>>,
    <<Phrase(<<"customer", "interaction">>), 4>>,
    <<Phrase(<<"support", "ticket">>), 4>>,
    <<Phrase(<<"customer", "query">>), 4>>,
    <<Phrase(<<"help", "desk", "automation">>), 5>> >>

product_recommender_indicators == <<
    <<Phrase(<<"product", "recommendation", "engine">>), 5>>,
    <<Phrase(<<"e-commerce", "recommendation">>), 5>>,
    <<Phrase(<<"ecommerce", "recommendation">>), 5>>,
    <<Phrase(<<"online", "shopping", "recommendation">>), 4>>,
    <<Phrase(<<"product", "suggestion">>), 3>>,
    <<<<Lit("recommend"), WS, Lit("product"), Lit("s")>>, 4>>,
    <<Phrase(<<"shopping", "experience">>), 2>>,
    <<<<Lit("shopsmart")>>, 6>>,
    <<Phrase(<<"personalized", "recommendation">>), 3>>,
    <<<<Lit("you"), WS, Lit("might"), WS, Alt({"also", "like"})>>, 4>>,
    <<<<Lit("customer"), Lit("s"), WS, Lit("who"), WS, Lit("bought"), WS, Lit("this")>>, 5>> >>

high_risk_indicators == <<
    <<Phrase(<<"medical", "diagnosis">>), 8>>,
    <<<<Lit("mediscan")>>, 8>>,
    <<Phrase(<<"healthcare", "decision">>), 7>>,
    <<Phrase(<<"diagnostic", "support", "system">>), 7>>,
    <<Phrase(<<"medical", "image", "analysis">>), 7>>,
    <<Phrase(<<"patient", "data">>), 6>>,
    <<Phrase(<<"clinical", "decision">>), 6>>,
    <<<<Lit("mri")>>, 5>>,
    <<Phrase(<<"ct", "scan">>), 5>>,
    <<<<Lit("x-ray")>>, 5>>,
    <<<<Lit("radiologist")>>, 6>>,
    <<<<Lit("pathologist")>>, 6>>,
    <<Phrase(<<"medical", "specialist">>), 6>> >>

\* for pattern in patterns: if re.search(pattern, text, re.IGNORECASE): ... break
AnyMatchLower(patterns, text) ==
    \E i \in 1..Len(patterns) : re_search(patterns[i], Lower(text))

\* for pattern, weight in indicators: if re.search(pattern, text): score += weight
RECURSIVE IndicatorScore(_, _)
IndicatorScore(indicators, text) ==
    IF Len(indicators) = 0 THEN 0
    ELSE (IF re_search(indicators[1][1], text) THEN indicators[1][2] ELSE 0)
         + IndicatorScore(Tail(indicators), text)

\* The four accumulated weights of the pre-check, on the lower-cased text.
social_scoring_score(documentation_text) ==
    IndicatorScore(social_scoring_indicators, Lower(documentation_text))
limited_risk_score(documentation_text) ==
    IndicatorScore(limited_risk_indicators, Lower(documentation_text))
product_recommender_score(documentation_text) ==
    IndicatorScore(product_recommender_indicators, Lower(documentation_text))
high_risk_score(documentation_text) ==
    IndicatorScore(high_risk_indicators, Lower(documentation_text))

\* The pre-check with the high-risk indicators weighed before the carve-outs.
PreCheck_HighRiskFirst(documentation_text) ==
    IF social_scoring_score(documentation_text) >= 15 THEN "prohibited"
    ELSE IF high_risk_score(documentation_text) >= 10 THEN "high-risk"
    ELSE IF limited_risk_score(documentation_text) >= 10 THEN "limited-risk"
    ELSE IF product_recommender_score(documentation_text) >= 10 THEN "minimal-risk"
    ELSE "none"

\* The pre-check of _determine_system_type_improved: the category it returns,
\* or "none" when it falls through to the oracle.
PreCheck(documentation_text) ==
    IF social_scoring_score(documentation_text) >= 15 THEN "prohibited"
    ELSE IF limited_risk_score(documentation_text) >= 10 THEN "limited-risk"
    ELSE IF product_recommender_score(documentation_text) >= 10 THEN "minimal-risk"
    ELSE IF high_risk_score(documentation_text) >= 10 THEN "high-risk"
    ELSE "none"

(***************************************************************************)
(* The override pass of analyze_compliance: presence of proof phrases.     *)
(***************************************************************************)
prohibited_indicators == <<
    Phrase(<<"social", "credit", "system">>),
    Phrase(<<"citizen", "rank">>),
    <<Lit("citizen"), Lit("rank")>>,
    <<Lit("evaluate"), WS, Lit("citizen"), Lit("s"), ANY, Lit("behavior"), ANY, Lit("score")>>,
    <<Lit("score"), ANY, Lit("determine"), ANY, Lit("access"), WS, Lit("to"), WS,
      Lit("public"), WS, Lit("service"), Lit("s")>>,
    <<Lit("score"), ANY, Lit("travel"), WS, Lit("permission")>>,
    <<Lit("numeric"), Lit("al"), WS, Lit("score"), ANY, Lit("social"), WS, Lit("behavior")>>,
    <<Lit("government"), ANY, Lit("scoring"), ANY, Lit("citizen")>> >>

medical_indicators == <<
    Phrase(<<"medical", "diagnosis">>),
    <<Lit("mediscan")>>,
    Phrase(<<"diagnostic", "support", "system">>),
    Phrase(<<"medical", "image", "analysis">>),
    Phrase(<<"clinical", "decision">>) >>

chatbot_indicators == <<
    <<Lit("chatbot")>>,
    <<Lit("servicebot")>>,
    Phrase(<<"customer", "service", "ai">>),
    Phrase(<<"customer", "support", "assistant">>) >>


\* The override pass: whether a proof phrase of prohibition was found, and the
\* system type it leaves, from the initial classification.
DocumentaryEvidence(all_text) == AnyMatchLower(prohibited_indicators, Lower(all_text))

\* The override pass with the chatbot phrases looked for on every corpus.
OverridePass_ChatbotAlways(initial, all_text) ==
    LET documentation_text_lower == Lower(all_text)
        evidence == DocumentaryEvidence(all_text)
        after_prohibited == IF evidence THEN "prohibited" ELSE initial
        check_others == after_prohibited # "prohibited" /\ ~evidence
        after_medical ==
            IF check_others /\ AnyMatchLower(medical_indicators, documentation_text_lower)
            THEN "high-risk" ELSE after_prohibited
    IN  IF AnyMatchLower(chatbot_indicators, documentation_text_lower)
        THEN "limited-risk" ELSE after_medical

\* The override pass without the medical phrases.
OverridePass_NoMedical(initial, all_text) ==
    LET documentation_text_lower == Lower(all_text)
        evidence == DocumentaryEvidence(all_text)
        after_prohibited == IF evidence THEN "prohibited" ELSE initial
        check_others == after_prohibited # "prohibited" /\ ~evidence
    IN  IF check_others /\ AnyMatchLower(chatbot_indicators, documentation_text_lower)
        THEN "limited-risk" ELSE after_prohibited

\* The override pass with the medical phrases looked for after the chatbot
\* phrases.
OverridePass_MedicalLast(initial, all_text) ==
    LET documentation_text_lower == Lower(all_text)
        evidence == DocumentaryEvidence(all_text)
        after_prohibited == IF evidence THEN "prohibited" ELSE initial
        check_others == after_prohibited # "prohibited" /\ ~evidence
        after_chatbot ==
            IF check_others /\ AnyMatchLower(chatbot_indicators, documentation_text_lower)
            THEN "limited-risk" ELSE after_prohibited
    IN  IF check_others /\ AnyMatchLower(medical_indicators, documentation_text_lower)
        THEN "high-risk" ELSE after_chatbot

OverridePass(initial, all_text) ==
    LET documentation_text_lower == Lower(all_text)
        evidence == DocumentaryEvidence(all_text)
        after_prohibited == IF evidence THEN "prohibited" ELSE initial
        check_others == after_prohibited # "prohibited" /\ ~evidence
        after_medical ==
            IF check_others /\ AnyMatchLower(medical_indicators, documentation_text_lower)
            THEN "high-risk" ELSE after_prohibited
    IN  IF check_others /\ AnyMatchLower(chatbot_indicators, documentation_text_lower)
        THEN "limited-risk" ELSE after_medical

(***************************************************************************)
(* The oracle layer of _determine_system_type_improved: parsing of the     *)
(* classification response.                                                *)
(***************************************************************************)
\* Direct statements, in the order of the dictionary.
classification_patterns == <<
    [type |-> "prohibited", patterns |-> <<
        <<Lit("classif"), Lit("y"), WS, Lit("as"), WS, Lit("prohibit"), Lit("ed")>>,
        <<Lit("classif"), Lit("ication"), Lit(":"), WS, Lit("prohibit"), Lit("ed")>>,
        <<BOS, Lit("prohibit"), Lit("ed"), EOS>>,
        <<Lit("this"), WS, Lit("is"), WS, Lit("a"), WS, Lit("prohibit"), Lit("ed"), WS, Lit("system")>>,
        <<Lit("should"), WS, Lit("be"), WS, Lit("classif"), Lit("ied"), WS, Lit("as"), WS,
          Lit("prohibit"), Lit("ed")>>,
        <<Lit("falls"), WS, Lit("under"), WS, Lit("prohibit"), Lit("ed")>>,
        <<Lit("article"), WS, Lit("5"), ANY, Lit("prohibit")>>,
        <<Lit("social"), WS, Lit("scoring"), ANY, Lit("prohibit")>>,
        <<Lit("social"), WS, Lit("credit"), ANY, Lit("prohibit")>> >>],
    [type |-> "high-risk", patterns |-> <<
        <<Lit("classif"), Lit("y"), WS, Lit("as"), WS, Lit("high-risk")>>,
        <<Lit("classif"), Lit("y"), WS, Lit("as"), WS, Lit("high"), WS, Lit("risk")>>,
        <<Lit("classif"), Lit("ication"), Lit(":"), WS, Lit("high-risk")>>,
        <<Lit("classif"), Lit("ication"), Lit(":"), WS, Lit("high"), WS, Lit("risk")>>,
        <<BOS, Lit("high-risk"), EOS>>,
        <<BOS, Lit("high"), WS, Lit("risk"), EOS>>,
        <<Lit("this"), WS, Lit("is"), WS, Lit("a"), WS, Lit("high-risk"), WS, Lit("system")>>,
        <<Lit("this"), WS, Lit("is"), WS, Lit("a"), WS, Lit("high"), WS, Lit("risk"), WS, Lit("system")>> >>],
    [type |-> "limited-risk", patterns |-> <<
        <<Lit("classif"), Lit("y"), WS, Lit("as"), WS, Lit("limited-risk")>>,
        <<Lit("classif"), Lit("y"), WS, Lit("as"), WS, Lit("limited"), WS, Lit("risk")>>,
        <<Lit("classif"), Lit("ication"), Lit(":"), WS, Lit("limited-risk")>>,
        <<Lit("classif"), Lit("ication"), Lit(":"), WS, Lit("limited"), WS, Lit("risk")>>,
        <<BOS, Lit("limited-risk"), EOS>>,
        <<BOS, Lit("limited"), WS, Lit("risk"), EOS>>,
        <<Lit("this"), WS, Lit("is"), WS, Lit("a"), WS, Lit("limited-risk"), WS, Lit("system")>>,
        <<Lit("this"), WS, Lit("is"), WS, Lit("a"), WS, Lit("limited"), WS, Lit("risk"), WS, Lit("system")>> >>],
    [type |-> "minimal-risk", patterns |-> <<
        <<Lit("classif"), Lit("y"), WS, Lit("as"), WS, Lit("minimal-risk")>>,
        <<Lit("classif"), Lit("y"), WS, Lit("as"), WS, Lit("minimal"), WS, Lit("risk")>>,
        <<Lit("classif"), Lit("ication"), Lit(":"), WS, Lit("minimal-risk")>>,
        <<Lit("classif"), Lit("ication"), Lit(":"), WS, Lit("minimal"), WS, Lit("risk")>>,
        <<BOS, Lit("minimal-risk"), EOS>>,
        <<BOS, Lit("minimal"), WS, Lit("risk"), EOS>>,
        <<Lit("this"), WS, Lit("is"), WS, Lit("a"), WS, Lit("minimal-risk"), WS, Lit("system")>>,
        <<Lit("this"), WS, Lit("is"), WS, Lit("a"), WS, Lit("minimal"), WS, Lit("risk"), WS, Lit("system")>> >>],
    [type |-> "general-purpose", patterns |-> <<
        <<Lit("classif"), Lit("y"), WS, Lit("as"), WS, Lit("general-purpose")>>,
        <<Lit("classif"), Lit("y"), WS, Lit("as"), WS, Lit("general"), WS, Lit("purpose")>>,
        <<Lit("classif"), Lit("ication"), Lit(":"), WS, Lit("general-purpose")>>,
        <<Lit("classif"), Lit("ication"), Lit(":"), WS, Lit("general"), WS, Lit("purpose")>>,
        <<BOS, Lit("general-purpose"), EOS>>,
        <<BOS, Lit("general"), WS, Lit("purpose"), EOS>>,
        <<BOS, Lit("gpai"), EOS>>,
        <<Lit("this"), WS, Lit("is"), WS, Lit("a"), WS, Lit("general-purpose"), WS, Lit("system")>>,
        <<Lit("this"), WS, Lit("is"), WS, Lit("a"), WS, Lit("general"), WS, Lit("purpose"), WS, Lit("system")>> >>] >>

\* The type of the first entry, from k on, one of whose patterns is found;
\* "none" when there is none.
RECURSIVE ClearPatternMatch(_, _)
ClearPatternMatch(k, response_text_lower) ==
    IF k > Len(classification_patterns) THEN "none"
    ELSE IF AnyMatchLower(classification_patterns[k].patterns, response_text_lower)
         THEN classification_patterns[k].type
    ELSE ClearPatternMatch(k + 1, response_text_lower)

article_5_patterns == <<
    <<Lit("article"), WS, Lit("5")>>,
    <<Lit("article"), WS, Lit("5"), WS0, Lit("("), WS0, Lit("1"), WS0, Lit(")"), WS0,
      Lit("("), WS0, Lit("c"), WS0, Lit(")")>>,
    <<Lit("prohibit"), Lit("ed"), WS, Lit("under"), WS, Lit("article")>>,
    Phrase(<<"social", "scoring", "system">>) >>

\* Keywords of the frequency count, each searched as \b keyword \b.
system_types == <<
    [type |-> "prohibited", keywords |-> <<
        <<Lit("prohibit"), Lit("ed")>>, Literal(<<"social", "scoring">>),
        Literal(<<"social", "credit">>), Literal(<<"article", "5">>) >>],
    [type |-> "high-risk", keywords |-> <<
        <<Lit("high-risk")>>, Literal(<<"high", "risk">>),
        Literal(<<"medical", "diagnosis">>), Literal(<<"healthcare", "decision">>) >>],
    [type |-> "limited-risk", keywords |-> <<
        <<Lit("limited-risk")>>, Literal(<<"limited", "risk">>),
        <<Lit("chatbot")>>, Literal(<<"customer", "service">>) >>],
    [type |-> "minimal-risk", keywords |-> <<
        <<Lit("minimal-risk")>>, Literal(<<"minimal", "risk">>),
        Literal(<<"product", "recommendation">>) >>],
    [type |-> "general-purpose", keywords |-> <<
        <<Lit("general-purpose")>>, Literal(<<"general", "purpose">>),
        <<Lit("gpai")>> >>] >>

negation_phrases == {"not", "isn't", "isnt", "doesn't", "doesnt", "shouldn't", "shouldnt",
                     "wouldn't", "wouldnt", "cannot", "can't", "cant"}

\* The width, in characters, of the context looked at before a keyword.
NegationWindow == 40

\* The number of characters of the symbols text[i..j].
RECURSIVE CharLen(_, _, _)
CharLen(text, i, j) == IF i > j THEN 0 ELSE Len(text[i]) + CharLen(text, i + 1, j)

\* The last k characters of a symbol that the window cuts in two: the ending
\* "not" of "cannot" is a word of its own, any other ending is no negation.
SymSuffix(sym, k) == IF sym = "cannot" /\ k = 3 THEN "not" ELSE "~"

\* response_text_lower[max(0, idx-40):idx], idx the keyword's start: the
\* symbols that lie in the window, the first one cut where the window starts.
ContextBefore(text, p) ==
    LET whole == {i \in 1..p : CharLen(text, i, p) <= NegationWindow}
        first == IF whole = {} THEN p + 1 ELSE CHOOSE i \in whole : \A j \in whole : i <= j
        rest  == IF first = 1 THEN 0 ELSE NegationWindow - CharLen(text, first, p)
    IN  (IF rest > 0 THEN <<SymSuffix(text[first - 1], rest)>> ELSE <<>>)
        \o SubSeq(text, first, p)

\* re.search(r'\b' + negation + r'\b', context_before) for some negation
IsNegated(context_before) ==
    \E i \in 1..Len(context_before) :
        /\ context_before[i] \in negation_phrases
        /\ IsBoundary(context_before, i - 1)
        /\ IsBoundary(context_before, i)

\* The starts of the matches of \b keyword \b in the text.
KeywordStarts(keyword, text) ==
    {p \in 0..Len(text) : MatchEnds(<<WB>> \o keyword \o <<WB>>, 1, text, {p}) # {}}

\* +1 for every occurrence of the keyword that is not negated, -1 for every
\* occurrence that is.
KeywordScore(keyword, text) ==
    LET starts  == KeywordStarts(keyword, text)
        negated == {p \in starts : IsNegated(ContextBefore(text, p))}
    IN  Cardinality(starts \ negated) - Cardinality(negated)

RECURSIVE KeywordsScore(_, _)
KeywordsScore(keywords, text) ==
    IF Len(keywords) = 0 THEN 0
    ELSE KeywordScore(keywords[1], text) + KeywordsScore(Tail(keywords), text)

\* The pre-check weight folded in whole.
PreCheckBonus_Undivided(type, documentation_text) ==
    CASE type = "prohibited"   -> social_scoring_score(documentation_text)
      [] type = "limited-risk" -> limited_risk_score(documentation_text)
      [] type = "minimal-risk" -> product_recommender_score(documentation_text)
      [] type = "high-risk"    -> high_risk_score(documentation_text)
      [] OTHER                 -> 0

\* The pre-check weight folded into a type's score.
PreCheckBonus(type, documentation_text) ==
    LET w == CASE type = "prohibited"   -> social_scoring_score(documentation_text)
               [] type = "limited-risk" -> limited_risk_score(documentation_text)
               [] type = "minimal-risk" -> product_recommender_score(documentation_text)
               [] type = "high-risk"    -> high_risk_score(documentation_text)
               [] OTHER                 -> 0
    IN  IF w > 0 THEN w \div 3 ELSE 0

type_scores(response_text_lower, documentation_text) ==
    [k \in 1..Len(system_types) |->
        KeywordsScore(system_types[k].keywords, response_text_lower)
        + PreCheckBonus(system_types[k].type, documentation_text)]

\* The selection in which a later type replaces the best one on an equal score.
RECURSIVE MaxType_LastWins(_, _, _, _)
MaxType_LastWins(scores, k, max_score, max_type) ==
    IF k > Len(scores) THEN [max_score |-> max_score, max_type |-> max_type]
    ELSE IF scores[k] >= max_score
         THEN MaxType_LastWins(scores, k + 1, scores[k], system_types[k].type)
    ELSE MaxType_LastWins(scores, k + 1, max_score, max_type)

\* for stype, score in type_scores.items(): if score > max_score: ...
RECURSIVE MaxType(_, _, _, _)
MaxType(scores, k, max_score, max_type) ==
    IF k > Len(scores) THEN [max_score |-> max_score, max_type |-> max_type]
    ELSE IF scores[k] > max_score THEN MaxType(scores, k + 1, scores[k], system_types[k].type)
    ELSE MaxType(scores, k + 1, max_score, max_type)

FrequencyAnalysis(response_text_lower, documentation_text) ==
    LET best == MaxType(type_scores(response_text_lower, documentation_text), 1, -1,
                        "minimal-risk")
    IN  IF best.max_score > 0 THEN best.max_type ELSE "minimal-risk"

\* The parse with the Article 5 references looked for before the clear
\* classification statements.
ParseClassification_CitationFirst(response_text, documentation_text) ==
    LET response_text_lower == Lower(response_text)
        clear == ClearPatternMatch(1, response_text_lower)
    IN  IF AnyMatchLower(article_5_patterns, response_text_lower) THEN "prohibited"
        ELSE IF clear # "none" THEN clear
        ELSE FrequencyAnalysis(response_text_lower, documentation_text)

\* The parse without the layer of Article 5 references.
ParseClassification_NoCitation(response_text, documentation_text) ==
    LET response_text_lower == Lower(response_text)
        clear == ClearPatternMatch(1, response_text_lower)
    IN  IF clear # "none" THEN clear
        ELSE FrequencyAnalysis(response_text_lower, documentation_text)

\* The system type _determine_system_type_improved returns from the oracle's
\* response, when the pre-check has not decided.
ParseClassification(response_text, documentation_text) ==
    LET response_text_lower == Lower(response_text)
        clear == ClearPatternMatch(1, response_text_lower)
    IN  IF clear # "none" THEN clear
        ELSE IF AnyMatchLower(article_5_patterns, response_text_lower) THEN "prohibited"
        ELSE FrequencyAnalysis(response_text_lower, documentation_text)

(***************************************************************************)
(* _analyze_prohibited_system: the two prohibition checks.                 *)
(***************************************************************************)
affirmative_patterns == <<
    <<WB, Lit("yes"), WB>>,
    Literal(<<"is", "a", "social", "scoring", "system">>),
    Literal(<<"does", "qualify", "as">>),
    Literal(<<"does", "involve">>),
    Literal(<<"is", "designed", "for">>),
    <<Lit("could"), Lit(" "), Lit("be"), Lit(" "), Lit("classif"), Lit("ied"), Lit(" "), Lit("as")>>,
    Literal(<<"exhibits", "characteristics", "of">>),
    Literal(<<"could", "be", "considered">>),
    Literal(<<"strong", "indications">>),
    Literal(<<"shows", "clear", "signs", "of">>),
    Literal(<<"matches", "the", "definition">>),
    Literal(<<"meets", "the", "criteria">>),
    Literal(<<"social", "credit", "system">>),
    <<Lit("citizen"), ANY, Lit("score")>>,
    <<Lit("rate"), ANY, Lit("individuals")>>,
    <<Lit("evaluate"), ANY, Lit("citizen"), Lit("s")>>,
    <<Lit("numeric"), ANY, Lit("score")>>,
    Literal(<<"unfavorable", "treatment">>),
    <<Lit("algorithmic"), ANY, Lit("assess")>>,
    Literal(<<"article", "5">>),
    <<Lit("prohibit"), Lit("ed"), Lit(" "), Lit("under")>>,
    Literal(<<"clear", "evidence">>),
    <<Lit("classif"), ANY, Lit("based"), Lit(" "), Lit("on"), Lit(" "), Lit("behavior")>>,
    Literal(<<"disproportionate", "treatment">>),
    <<Lit("government"), ANY, Lit("scoring")>> >>

negative_patterns == <<
    <<WB, Lit("no"), WB>>,
    Literal(<<"not", "a", "social", "scoring", "system">>),
    Literal(<<"not", "qualify", "as">>),
    Literal(<<"does", "not", "qualify">>),
    Literal(<<"does", "not", "involve">>),
    Literal(<<"is", "not", "designed", "for">>),
    <<Lit("cannot"), Lit(" "), Lit("be"), Lit(" "), Lit("classif"), Lit("ied"), Lit(" "), Lit("as")>>,
    Literal(<<"does", "not", "exhibit">>),
    Literal(<<"should", "not", "be", "considered">>),
    Literal(<<"no", "indications">>),
    Literal(<<"shows", "no", "signs", "of">>),
    Literal(<<"does", "not", "match">>),
    Literal(<<"does", "not", "meet">>),
    Literal(<<"clearly", "not">>),
    Literal(<<"explicitly", "not">>),
    Literal(<<"definitely", "not">>) >>

social_scoring_features == <<
    Phrase(<<"social", "credit", "system">>),
    Phrase(<<"social", "scoring", "system">>),
    Phrase(<<"citizen", "score">>),
    Phrase(<<"citizen", "rank">>),
    <<Lit("evaluate"), WS, Lit("citizen"), Lit("s"), ANY, Lit("behavior")>>,
    <<Lit("social"), WS, Lit("behavior"), ANY, Lit("score")>>,
    <<Lit("score"), ANY, Lit("public"), WS, Lit("service"), Lit("s")>>,
    <<Lit("numeric"), Lit("al"), WS, Lit("score"), ANY, Lit("citizen")>>,
    Phrase(<<"access", "based", "on", "score">>),
    Phrase(<<"behavior", "score">>),
    <<Lit("travel"), WS, Lit("restriction"), ANY, Lit("score")>> >>

\* affirmative match and no negative match
AffirmativeVerdict(response_text) ==
    /\ AnyMatchLower(affirmative_patterns, response_text)
    /\ ~AnyMatchLower(negative_patterns, response_text)

\* The record made from the two oracle answers alone.
_analyze_prohibited_system_AnswersOnly(documentation_text, social_scoring_text, manipulation_text) ==
    LET is_social_scoring == AffirmativeVerdict(social_scoring_text)
        is_manipulation   == AffirmativeVerdict(manipulation_text)
    IN  [is_prohibited |-> is_social_scoring \/ is_manipulation,
         social_scoring |-> [is_social_scoring |-> is_social_scoring,
                             evidence |-> social_scoring_text],
         manipulation |-> [is_manipulation |-> is_manipulation,
                           evidence |-> manipulation_text]]

\* The record _analyze_prohibited_system returns from the two oracle answers.
_analyze_prohibited_system(documentation_text, social_scoring_text, manipulation_text) ==
    LET direct_social_scoring_evidence ==
            AnyMatchLower(social_scoring_features, documentation_text)
        is_social_scoring ==
            AffirmativeVerdict(social_scoring_text) \/ direct_social_scoring_evidence
        is_manipulation == AffirmativeVerdict(manipulation_text)
    IN  [is_prohibited |-> is_social_scoring \/ is_manipulation,
         social_scoring |-> [is_social_scoring |-> is_social_scoring,
                             evidence |-> social_scoring_text],
         manipulation |-> [is_manipulation |-> is_manipulation,
                           evidence |-> manipulation_text]]

(***************************************************************************)
(* _extract_score.  Scores are kept exactly, in units of 1/600: ScoreOne   *)
(* is the score 1.0, so that a mean of six scores is again a whole number  *)
(* of units.                                                               *)
(***************************************************************************)
ScoreOne == 6 * 100

DigitVal(d) ==
    CASE d = "0" -> 0 [] d = "1" -> 1 [] d = "2" -> 2 [] d = "3" -> 3 [] d = "4" -> 4
      [] d = "5" -> 5 [] d = "6" -> 6 [] d = "7" -> 7 [] d = "8" -> 8 [] d = "9" -> 9

\* The six templates, each split at its capture group: the part before the
\* group, the group, the part after it, and how the captured text becomes a
\* score ("percent": /100.0, "tenths": /10.0, "decimal": float as it is).
Decimal == <<Digit, Lit("."), Digit>>

\* The templates with the percentage tried first.
score_patterns_PercentFirst == <<
    [pre |-> <<>>,
     grp |-> <<Digit, Digit>>, post |-> <<Lit("%")>>, conv |-> "percent"],
    [pre |-> <<Lit("compliance"), Lit(" "), Lit("score"), NonDigits>>,
     grp |-> Decimal, post |-> <<>>, conv |-> "decimal"],
    [pre |-> <<Lit("score"), NonDigits>>,
     grp |-> Decimal,
     post |-> <<NonDigits, Lit("/"), NonDigits, Lit("1"), Lit("."), Lit("0")>>,
     conv |-> "decimal"],
    [pre |-> <<Lit("score"), NonDigits>>,
     grp |-> <<Digit>>, post |-> <<Lit("/"), Lit("1"), Lit("0")>>, conv |-> "tenths"],
    [pre |-> <<Lit("compliance"), NonDigits>>,
     grp |-> Decimal, post |-> <<>>, conv |-> "decimal"],
    [pre |-> <<Lit("score"), NonDigits>>,
     grp |-> Decimal, post |-> <<>>, conv |-> "decimal"] >>

score_patterns == <<
    [pre |-> <<Lit("compliance"), Lit(" "), Lit("score"), NonDigits>>,
     grp |-> Decimal, post |-> <<>>, conv |-> "decimal"],
    [pre |-> <<Lit("score"), NonDigits>>,
     grp |-> Decimal,
     post |-> <<NonDigits, Lit("/"), NonDigits, Lit("1"), Lit("."), Lit("0")>>,
     conv |-> "decimal"],
    [pre |-> <<Lit("score"), NonDigits>>,
     grp |-> <<Digit>>, post |-> <<Lit("/"), Lit("1"), Lit("0")>>, conv |-> "tenths"],
    [pre |-> <<>>,
     grp |-> <<Digit, Digit>>, post |-> <<Lit("%")>>, conv |-> "percent"],
    [pre |-> <<Lit("compliance"), NonDigits>>,
     grp |-> Decimal, post |-> <<>>, conv |-> "decimal"],
    [pre |-> <<Lit("score"), NonDigits>>,
     grp |-> Decimal, post |-> <<>>, conv |-> "decimal"] >>

\* The matches of one template in a text (re.IGNORECASE): start of the match,
\* start and end of the capture group.
GroupMatches(sp, text) ==
    LET low == Lower(text)
        ends(i, g) == {e \in MatchEnds(sp.grp, 1, low, {g}) :
                          MatchEnds(sp.post, 1, low, {e}) # {}}
        from(i) == UNION {{[start |-> i, gs |-> g, ge |-> e] : e \in ends(i, g)} :
                             g \in MatchEnds(sp.pre, 1, low, {i})}
    IN  UNION {from(i) : i \in 0..Len(text)}

\* match.group(1) of re.search: the capture group of the leftmost match.
Group1(sp, text) ==
    LET ms == GroupMatches(sp, text)
        m  == CHOOSE x \in ms : \A y \in ms : x.start <= y.start
    IN  SubSeq(text, m.gs + 1, m.ge)

\* float(score_str) / 100.0, float(score_str) / 10.0 or float(score_str)
ConvertScore(conv, score_str) ==
    CASE conv = "percent" ->
            (10 * DigitVal(score_str[1]) + DigitVal(score_str[2])) * (ScoreOne \div 100)
      [] conv = "tenths" ->
            DigitVal(score_str[1]) * (ScoreOne \div 10)
      [] conv = "decimal" ->
            DigitVal(score_str[1]) * ScoreOne + DigitVal(score_str[3]) * (ScoreOne \div 10)

\* The index of the first template, from k on, that matches; 0 when none does.
RECURSIVE FirstMatching(_, _, _)
FirstMatching(patterns, k, text) ==
    IF k > Len(patterns) THEN 0
    ELSE IF GroupMatches(patterns[k], text) # {} THEN k
    ELSE FirstMatching(patterns, k + 1, text)

DefaultScore == ScoreOne \div 2

\* _extract_score without its neutral default.
_extract_score_NoDefault(response_text) ==
    LET k == FirstMatching(score_patterns, 1, response_text) IN
    IF k = 0 THEN 0
    ELSE ConvertScore(score_patterns[k].conv, Group1(score_patterns[k], response_text))

_extract_score(response_text) ==
    LET k == FirstMatching(score_patterns, 1, response_text) IN
    IF k = 0 THEN DefaultScore
    ELSE ConvertScore(score_patterns[k].conv, Group1(score_patterns[k], response_text))

(***************************************************************************)
(* _identify_compliance_gaps and _generate_recommendations.                *)
(***************************************************************************)
\* The category list with transparency ahead of technical_robustness.
categories_TransparencyEarlier == <<"risk_assessment", "data_governance", "transparency",
                                    "technical_robustness", "human_oversight",
                                    "accountability">>

categories == <<"risk_assessment", "data_governance", "technical_robustness",
                "transparency", "human_oversight", "accountability">>

\* (?:gap|issue|non-compliant|missing|lack)
GapWords == {"gap", "issue", "non-compliant", "missing", "lack"}

\* re.findall of the gap pattern from position pos on: each match runs from a
\* gap word to the first "." after it, and the search goes on behind it.
RECURSIVE gap_sections(_, _)
gap_sections(analysis_text, pos) ==
    LET n      == Len(analysis_text)
        low    == Lower(analysis_text)
        dots(p) == {d \in (p + 1)..n : low[d] = "."}
        starts == {p \in (pos + 1)..n : low[p] \in GapWords /\ dots(p) # {}}
    IN  IF starts = {} THEN <<>>
        ELSE LET p == CHOOSE x \in starts : \A y \in starts : x <= y
                 d == CHOOSE x \in dots(p) : \A y \in dots(p) : x <= y
             IN  <<SubSeq(analysis_text, p, d)>> \o gap_sections(analysis_text, d)

\* The severity with the bounds of the bands on the other side.
Severity_BoundsIncluded(sc) ==
    IF 10 * sc <= 3 * ScoreOne THEN "high"
    ELSE IF 10 * sc <= 5 * ScoreOne THEN "medium"
    ELSE "low"

\* "high" if score < 0.3 else "medium" if score < 0.5 else "low"
Severity(sc) ==
    IF 10 * sc < 3 * ScoreOne THEN "high"
    ELSE IF 10 * sc < 5 * ScoreOne THEN "medium"
    ELSE "low"

\* The gaps of one category's analysis.
CategoryGaps(category, analysis) ==
    IF 10 * analysis.score < 7 * ScoreOne
    THEN LET sections == gap_sections(analysis.analysis, 0)
         IN  [i \in 1..Len(sections) |->
                 [category |-> category, description |-> sections[i],
                  severity |-> Severity(analysis.score)]]
    ELSE <<>>

\* The gaps of the categories k.. of detailed_analysis, in its order.
RECURSIVE GapsFrom(_, _)
GapsFrom(detailed_analysis, k) ==
    IF k > Len(categories) THEN <<>>
    ELSE (IF categories[k] \in DOMAIN detailed_analysis
          THEN CategoryGaps(categories[k], detailed_analysis[categories[k]])
          ELSE <<>>)
         \o GapsFrom(detailed_analysis, k + 1)

_identify_compliance_gaps(detailed_analysis) == GapsFrom(detailed_analysis, 1)

\* The keys of gaps_by_category in insertion order: the categories of the
\* gaps, each at its first appearance.
\* Every category gets a recommendation call, with gaps or without.
GapCategories_EveryCategory(compliance_gaps, seen) == categories

RECURSIVE GapCategories(_, _)
GapCategories(compliance_gaps, seen) ==
    IF Len(compliance_gaps) = 0 THEN <<>>
    ELSE IF compliance_gaps[1].category \in seen
         THEN GapCategories(Tail(compliance_gaps), seen)
    ELSE <<compliance_gaps[1].category>>
         \o GapCategories(Tail(compliance_gaps), seen \cup {compliance_gaps[1].category})

\* The bullet characters (bullet sign left out, -, *, digits) and [.)]
BulletChars == {"-", "*"} \cup Digits
BulletEnds  == {".", ")"}

\* A list marker ends at position e, having started at position p: one or
\* more bullet characters and one of "." and ")".
MarkerEnd(text, p) ==
    LET n    == Len(text)
        runs == {r \in (p + 1)..n : \A j \in (p + 1)..r : text[j] \in BulletChars}
        ends == {r + 1 : r \in {x \in runs : x < n /\ text[x + 1] \in BulletEnds}}
    IN  ends

\* The lookahead of the item pattern at position e: a newline and a list
\* marker, two newlines, or the end of the text.
ItemStops(text, e) ==
    \/ e = Len(text)
    \/ e < Len(text) /\ text[e + 1] = "\n" /\ MarkerEnd(text, e + 1) # {}
    \/ e + 1 < Len(text) /\ text[e + 1] = "\n" /\ text[e + 2] = "\n"

\* re.findall of the list-item pattern (re.DOTALL) from position pos on.
RECURSIVE BulletItems(_, _)
BulletItems(text, pos) ==
    LET n      == Len(text)
        \* where the marker begins: at the start of the text, or behind a newline
        begin(p) == IF p = 0 /\ MarkerEnd(text, 0) # {} THEN {0}
                    ELSE IF p < n /\ text[p + 1] = "\n" /\ MarkerEnd(text, p + 1) # {}
                    THEN {p + 1} ELSE {}
        starts == {p \in pos..n : begin(p) # {}}
    IN  IF starts = {} THEN <<>>
        ELSE LET p  == CHOOSE x \in starts : \A y \in starts : x <= y
                 b  == CHOOSE x \in begin(p) : TRUE
                 m  == CHOOSE x \in MarkerEnd(text, b) : TRUE
                 ws == {q \in m..n : \A j \in (m + 1)..q : text[j] \in WhiteSpace}
                 w  == CHOOSE x \in ws : \A y \in ws : x >= y
                 es == {e \in w..n : ItemStops(text, e)}
                 e  == CHOOSE x \in es : \A y \in es : x <= y
             IN  <<SubSeq(text, w + 1, e)>> \o BulletItems(text, IF e > p THEN e ELSE p + 1)

\* The symbols that begin with a capital letter ([A-Z]).
Capitalized == {"Add", "Review", "Train", "Compliance", "Score", "Social", "ServiceBot",
                "MediScan", "MRI", "CT", "ShopSmart", "Citizen", "Rank", "Classif"}

\* re.findall(r"(?<=\. )[A-Z][^.]*\.", text) from position pos on.
RECURSIVE SentenceItems(_, _)
SentenceItems(text, pos) ==
    LET n       == Len(text)
        dots(p) == {d \in (p + 1)..n : text[d] = "."}
        starts  == {p \in (pos + 1)..n :
                       /\ p >= 3 /\ text[p - 2] = "." /\ text[p - 1] = " "
                       /\ text[p] \in Capitalized
                       /\ dots(p) # {}}
    IN  IF starts = {} THEN <<>>
        ELSE LET p == CHOOSE x \in starts : \A y \in starts : x <= y
                 d == CHOOSE x \in dots(p) : \A y \in dots(p) : x <= y
             IN  <<SubSeq(text, p, d)>> \o SentenceItems(text, d)

\* The recommendation items of one oracle answer: list items, or sentences
\* when there is no list item.
recommendation_items(response_text) ==
    LET items == BulletItems(response_text, 0)
    IN  IF Len(items) > 0 THEN items ELSE SentenceItems(response_text, 0)

\* The recommendations of one category, their priority taken from the gaps of
\* every category.
CategoryRecommendations_AllGaps(category, compliance_gaps, response_text) ==
    LET items == recommendation_items(response_text)
        priority == IF \E i \in 1..Len(compliance_gaps) : compliance_gaps[i].severity = "high"
                    THEN "high" ELSE "medium"
    IN  [i \in 1..Len(items) |->
            [category |-> category, recommendation |-> items[i], priority |-> priority]]

\* The recommendations of one category from the oracle's answer.
CategoryRecommendations(category, compliance_gaps, response_text) ==
    LET gaps  == SelectSeq(compliance_gaps, LAMBDA g : g.category = category)
        items == recommendation_items(response_text)
        priority == IF \E i \in 1..Len(gaps) : gaps[i].severity = "high"
                    THEN "high" ELSE "medium"
    IN  [i \in 1..Len(items) |->
            [category |-> category, recommendation |-> items[i], priority |-> priority]]

(***************************************************************************)
(* Inputs: the documentation chunks user_docs is drawn from.               *)
(***************************************************************************)
\* "We operate a Social credit system"
ChunkSocialCredit == Words(<<"we", "operate", "a", "Social", "credit", "system">>)
\* "citizen score from social behavior score"
ChunkCitizenScore == Words(<<"citizen", "score", "from", "social", "behavior", "score">>)
\* "ServiceBot is a customer service chatbot that answers support tickets"
ChunkServiceBot == Words(<<"ServiceBot", "is", "a", "customer", "service", "chatbot",
                           "that", "answers", "support", "ticket", "+", "s">>)
\* "a helpful chatbot"
ChunkChatbot == Words(<<"a", "helpful", "chatbot">>)
\* "MediScan analyzes MRI and CT scans"
ChunkMediScan == Words(<<"MediScan", "analyzes", "MRI", "and", "CT", "scan", "+", "s">>)
\* "clinical decision support"
ChunkClinical == Words(<<"clinical", "decision", "support">>)
\* "ShopSmart is a product recommendation engine"
ChunkShopSmart == Words(<<"ShopSmart", "is", "a", "product", "recommendation", "engine">>)
\* "weather forecast tool"
ChunkWeather == Words(<<"weather", "forecast", "tool">>)

DocChunks == {ChunkSocialCredit, ChunkCitizenScore, ChunkServiceBot, ChunkChatbot,
              ChunkMediScan, ChunkClinical, ChunkShopSmart, ChunkWeather}

\* All sequences over S of length at most n.
RECURSIVE SeqsUpTo(_, _)
SeqsUpTo(S, n) ==
    IF n = 0 THEN {<<>>}
    ELSE LET shorter == SeqsUpTo(S, n - 1)
         IN  shorter \cup {Append(q, x) : q \in shorter, x \in S}

\* all_text = "\n\n".join([chunk["text"] for chunk in user_docs])
AllText(docs) == JoinChunks(docs)

(***************************************************************************)
(* Inputs: the pieces an oracle narrative is put together from.            *)
(***************************************************************************)
\* "Compliance score: 0.8"
PieceScore08 == <<"Compliance", " ", "score", ":", " ", "0", ".", "8">>
\* "compliance score: 0.3"
PieceScore03 == <<"compliance", " ", "score", ":", " ", "0", ".", "3">>
\* "compliance score: 0.0"
PieceScore00 == <<"compliance", " ", "score", ":", " ", "0", ".", "0">>
\* "compliance score: 7.5/10"
PieceScore75of10 == <<"compliance", " ", "score", ":", " ", "7", ".", "5", "/", "1", "0">>
\* "75%"
PiecePercent75 == <<"7", "5", "%">>
\* "100%"
PiecePercent100 == <<"1", "0", "0", "%">>
\* "5%"
PiecePercent5 == <<"5", "%">>
\* "6/10"
PieceSixOfTen == <<"6", "/", "1", "0">>
\* "score 6/10"
PieceScoreSixOfTen == <<"score", " ", "6", "/", "1", "0">>
\* "Score of 0.9 / 1.0"
PieceScore09of1 == <<"Score", " ", "of", " ", "0", ".", "9", " ", "/", " ", "1", ".", "0">>
\* "compliance is about 0.4"
PieceCompliance04 == <<"compliance", " ", "is", " ", "about", " ", "0", ".", "4">>
\* "the system is documented"
PieceNoScore == <<"the", " ", "system", " ", "is", " ", "documented">>

NarrativePieces == {PieceScore08, PieceScore03, PieceScore00, PieceScore75of10,
                    PiecePercent75, PiecePercent100, PiecePercent5, PieceSixOfTen,
                    PieceScoreSixOfTen, PieceScore09of1, PieceCompliance04, PieceNoScore}

\* Pieces written one after the other, ". " between them.
RECURSIVE JoinPieces(_)
JoinPieces(pieces) ==
    IF Len(pieces) = 0 THEN <<>>
    ELSE IF Len(pieces) = 1 THEN pieces[1]
    ELSE pieces[1] \o <<".", " ">> \o JoinPieces(Tail(pieces))

Narratives == {JoinPieces(q) : q \in SeqsUpTo(NarrativePieces, MaxPieces)}

\* Answers of the oracle to the classification prompt.
\* "Classification: high-risk"
AnswerHighRisk == <<"Classif", "ication", ":", " ", "high-risk">>
\* "prohibited"
AnswerProhibited == <<"prohibit", "ed">>
\* "this violates article 5"
AnswerArticle5 == Words(<<"this", "violates", "article", "5">>)
\* "it is not a chatbot but a general purpose model"
AnswerNotChatbot == Words(<<"it", "is", "not", "a", "chatbot", "but", "a", "general",
                            "purpose", "model">>)
\* "unclear"
AnswerUnclear == <<"unclear">>
\* "a limited risk customer service chatbot"
AnswerLimited == Words(<<"a", "limited", "risk", "customer", "service", "chatbot">>)
\* "minimal-risk"
AnswerMinimal == <<"minimal-risk">>
\* "a general purpose gpai model"
AnswerGeneralPurpose == Words(<<"a", "general", "purpose", "gpai", "model">>)

ClassificationAnswers == {AnswerHighRisk, AnswerProhibited, AnswerArticle5, AnswerNotChatbot,
                          AnswerUnclear, AnswerLimited, AnswerMinimal, AnswerGeneralPurpose}

\* Answers of the oracle to the two prohibition prompts.
\* "yes, it is a social scoring system"
AnswerYes == <<"yes", ",", " ">> \o Words(<<"it", "is", "a", "social", "scoring", "system">>)
\* "no"
AnswerNo == <<"no">>
\* "yes and no"
AnswerYesAndNo == Words(<<"yes", "and", "no">>)

ProhibitionAnswers == {AnswerYes, AnswerNo, AnswerYesAndNo, AnswerUnclear}

\* Narratives the oracle answers a category prompt with.
\* "missing logs."
NarrativeMissingLogs == <<"missing", " ", "logs", ".">>

CategoryNarratives == {PieceScore00, NarrativeMissingLogs}

\* Answers of the oracle to a recommendation prompt.
\* "1. Add logging"
AnswerOneItem == <<"1", ".", " ", "Add", " ", "logging">>

RecommendationAnswers == {AnswerOneItem}

(***************************************************************************)
(* analyze_compliance, one action for each stretch of code between two     *)
(* calls of the oracle.  A call of the oracle or of the retriever either   *)
(* answers or raises; nothing in analyze_compliance catches what it raises.*)
(***************************************************************************)
(***************************************************************************)
(* The prompt module: a cache filled from prompts.pdf on the first call.   *)
(* A prompt text is <<"pdf", name>> or <<"default", name>> by where it     *)
(* comes from, and <<>> when it is the empty string.                       *)
(***************************************************************************)
PromptNames == {"system_classification", "prohibited_social_scoring",
                "prohibited_manipulation", "high_risk_assessment", "data_governance",
                "human_oversight"}

\* What update_classification_prompts does in a process: it raises, or it
\* returns the prompts of the names found in the PDF (none when the PDF is
\* missing or unreadable).
CompleteSource == [outcome |-> "returns", names |-> PromptNames]
PromptSources ==
    {[outcome |-> "raises", names |-> {}], [outcome |-> "returns", names |-> {}],
     [outcome |-> "returns", names |-> {"system_classification"}],
     [outcome |-> "returns", names |-> PromptNames \ {"high_risk_assessment"}],
     CompleteSource}

update_classification_prompts(source) == [n \in source.names |-> <<"pdf", n>>]

_get_default_prompts ==
    [n \in PromptNames |->
        IF n \in {"data_governance", "human_oversight"} THEN <<>> ELSE <<"default", n>>]

\* get_prompts that falls back to the defaults without keeping them.
get_prompts_FallbackNotCached(cache, source) ==
    IF cache # <<>> THEN cache
    ELSE IF source.outcome = "raises" \/ source.names = {} THEN <<>>
    ELSE <<update_classification_prompts(source)>>

\* The cache after get_prompts (lines 29-43).
get_prompts(cache, source) ==
    IF cache # <<>> THEN cache
    ELSE IF source.outcome = "raises" THEN <<_get_default_prompts>>
    ELSE IF source.names = {} THEN <<_get_default_prompts>>
    ELSE <<update_classification_prompts(source)>>

\* What get_prompt returns from the prompts get_prompts gave it (lines 55-61).
get_prompt(prompts, prompt_name) ==
    IF prompt_name \in DOMAIN prompts THEN prompts[prompt_name]
    ELSE IF prompt_name \in DOMAIN _get_default_prompts THEN _get_default_prompts[prompt_name]
    ELSE <<>>

\* The prompt module after the calls get_prompt(names[1]), get_prompt(names[2]), ...
RECURSIVE AfterGetPrompt(_, _, _)
AfterGetPrompt(module, names, source) ==
    IF Len(names) = 0 THEN module
    ELSE LET cache   == get_prompts(module.cache, source)
             prompts == IF cache = <<>> THEN _get_default_prompts ELSE cache[1]
         IN  AfterGetPrompt([cache |-> cache,
                             update_calls |-> module.update_calls
                                              + (IF module.cache = <<>> THEN 1 ELSE 0),
                             prompt |-> get_prompt(prompts, names[1])],
                            Tail(names), source)

\* The calls get_prompt(name), one for each of the names in order.
GetPrompt(names) ==
    LET after == AfterGetPrompt([cache |-> _PROMPTS_CACHE, update_calls |-> update_calls,
                                 prompt |-> prompt_text], names, prompt_source)
    IN  /\ get_prompt_calls' = get_prompt_calls \o names
        /\ _PROMPTS_CACHE' = after.cache
        /\ update_calls' = after.update_calls
        /\ prompt_text' = after.prompt
        /\ UNCHANGED prompt_source

\* A process in which no prompt has been asked for, prompts.pdf being complete.
NoPromptLoaded ==
    /\ prompt_source = CompleteSource
    /\ _PROMPTS_CACHE = <<>>
    /\ update_calls = 0
    /\ prompt_text = <<>>

\* No run of process_eu_ai_act has been made.
NoReferenceRun ==
    /\ output_file = FALSE
    /\ vector_ids_file = FALSE
    /\ namespace = 0
    /\ reference_runs = <<>>

NoResults == [overall_score |-> 0, category_scores |-> <<>>, compliance_gaps |-> <<>>,
              recommendations |-> <<>>, detailed_analysis |-> <<>>]

Init ==
    /\ pc = "start"
    /\ files = <<>>
    /\ top_k = 5
    /\ user_docs \in SeqsUpTo(DocChunks, MaxChunks)
    /\ initial_type = "unset"
    /\ system_type = "unset"
    /\ documentary_evidence_of_prohibition = FALSE
    /\ results = NoResults
    /\ next_category = 1
    /\ total_score = 0
    /\ todo = <<>>
    /\ saved = <<>>
    /\ llm_calls = <<>>
    /\ retrieve_calls = <<>>
    /\ get_prompt_calls = <<>>
    /\ NoPromptLoaded
    /\ NoReferenceRun
    /\ narrative = <<>>
    /\ extracted = "pending"

\* One call of self.llm.invoke, by the prompt it is given.
LlmCall(prompt, category) == [prompt |-> prompt, category |-> category]

\* One call of self.retriever.retrieve (lines 776-783).
RetrieveCall(category, type) ==
    [category |-> category, system_type |-> type, namespace |-> "eu_ai_act", top_k |-> 5]

\* Lines 787-795: the prompt _analyze_category asks get_prompt for; the
\* other templates are written out in the code.
CategoryPrompt(type, category) ==
    IF type = "high-risk"
    THEN IF category \in {"data_governance", "human_oversight"} THEN <<category>>
         ELSE <<"high_risk_assessment">>
    ELSE <<>>

\* Lines 90-151: the classification is stored, the override pass is applied,
\* and the run turns to the prohibited branch or to the category loop.
Classified(initial) ==
    LET all_text == AllText(user_docs)
        final    == OverridePass(initial, all_text)
        evidence == DocumentaryEvidence(all_text)
    IN  /\ initial_type' = initial
        /\ system_type' = final
        /\ documentary_evidence_of_prohibition' = evidence
        /\ results' = ("system_type" :> final) @@ results
        /\ pc' = IF final = "prohibited" \/ evidence THEN "prohibited" ELSE "categories"
        /\ UNCHANGED <<reference_vars, files, top_k, user_docs, next_category, total_score, todo, saved,
                       retrieve_calls, narrative, extracted>>

\* The pre-check decides, but the classification prompt is loaded first.
ClassifyByPreCheck_LoadsPrompt ==
    /\ pc = "start"
    /\ PreCheck(AllText(user_docs)) # "none"
    /\ Classified(PreCheck(AllText(user_docs)))
    /\ GetPrompt(<<"system_classification">>)
    /\ UNCHANGED llm_calls

\* The pre-check decides the classification; the oracle is not asked.
ClassifyByPreCheck ==
    /\ pc = "start"
    /\ PreCheck(AllText(user_docs)) # "none"
    /\ Classified(PreCheck(AllText(user_docs)))
    /\ UNCHANGED <<llm_calls, get_prompt_calls, prompt_vars>>

\* The pre-check decides nothing: the oracle is asked and its answer parsed.
ClassifyByOracle ==
    /\ pc = "start"
    /\ PreCheck(AllText(user_docs)) = "none"
    /\ GetPrompt(<<"system_classification">>)
    /\ llm_calls' = Append(llm_calls, LlmCall("system_classification", "-"))
    /\ \E answer \in ClassificationAnswers :
           Classified(ParseClassification(answer, AllText(user_docs)))

\* A raise that saves the results gathered so far on its way out.
Raise_SavesPartial ==
    /\ pc' = "failed"
    /\ saved' = <<results>>
    /\ UNCHANGED <<reference_vars, files, top_k, user_docs, initial_type, system_type,
                   documentary_evidence_of_prohibition, results, next_category,
                   total_score, todo, narrative, extracted>>

\* A call raises: the exception leaves analyze_compliance.
Raise ==
    /\ pc' = "failed"
    /\ UNCHANGED <<reference_vars, files, top_k, user_docs, initial_type, system_type,
                   documentary_evidence_of_prohibition, results, next_category,
                   total_score, todo, saved, narrative, extracted>>

ClassifyOracleRaises ==
    /\ pc = "start"
    /\ PreCheck(AllText(user_docs)) = "none"
    /\ GetPrompt(<<"system_classification">>)
    /\ llm_calls' = Append(llm_calls, LlmCall("system_classification", "-"))
    /\ UNCHANGED retrieve_calls
    /\ Raise

\* The prohibited branch without the zeroing of the category scores.
ProhibitedResults_KeepScores(res, prohibition_analysis) ==
    [prohibition_analysis |-> prohibition_analysis,
     overall_score |-> 0,
     recommendations |-> <<[category |-> "prohibited_use",
                            recommendation |-> "should not be deployed in the EU",
                            priority |-> "high"]>>]
    @@ res

\* Lines 154-189: the prohibited branch.
ProhibitedResults(res, prohibition_analysis) ==
    LET social == prohibition_analysis.social_scoring.is_social_scoring
        analysis ==
            IF social
            THEN [prohibited_category |-> "social_scoring", article |-> "Article 5(1)(c)",
                  explanation |-> "social scoring is prohibited under Article 5(1)(c)"]
                 @@ prohibition_analysis
            ELSE prohibition_analysis
    IN  [prohibition_analysis |-> analysis,
         overall_score |-> 0,
         category_scores |-> [c \in {categories[i] : i \in 1..Len(categories)} |-> 0],
         recommendations |-> <<[category |-> "prohibited_use",
                                recommendation |-> "should not be deployed in the EU",
                                priority |-> "high"]>>]
        @@ res

\* The prohibited branch with the manipulation check asked first.
AnalyzeProhibited_ManipulationFirst ==
    /\ pc = "prohibited"
    /\ \E social_scoring_text \in ProhibitionAnswers, manipulation_text \in ProhibitionAnswers :
           results' = ProhibitedResults(results,
                          _analyze_prohibited_system(AllText(user_docs), social_scoring_text,
                                                     manipulation_text))
    /\ GetPrompt(<<"prohibited_manipulation", "prohibited_social_scoring">>)
    /\ llm_calls' = llm_calls \o <<LlmCall("prohibited_manipulation", "-"),
                                   LlmCall("prohibited_social_scoring", "-")>>
    /\ pc' = "persist"
    /\ UNCHANGED <<reference_vars, files, top_k, user_docs, initial_type, system_type,
                   documentary_evidence_of_prohibition, next_category, total_score, todo,
                   saved, retrieve_calls, narrative, extracted>>

AnalyzeProhibited ==
    /\ pc = "prohibited"
    /\ \E social_scoring_text \in ProhibitionAnswers, manipulation_text \in ProhibitionAnswers :
           results' = ProhibitedResults(results,
                          _analyze_prohibited_system(AllText(user_docs), social_scoring_text,
                                                     manipulation_text))
    /\ GetPrompt(<<"prohibited_social_scoring", "prohibited_manipulation">>)
    /\ llm_calls' = llm_calls \o <<LlmCall("prohibited_social_scoring", "-"),
                                   LlmCall("prohibited_manipulation", "-")>>
    /\ pc' = "persist"
    /\ UNCHANGED <<reference_vars, files, top_k, user_docs, initial_type, system_type,
                   documentary_evidence_of_prohibition, next_category, total_score, todo,
                   saved, retrieve_calls, narrative, extracted>>

\* The first or the second of the two calls raises.
AnalyzeProhibitedRaises ==
    /\ pc = "prohibited"
    /\ \/ /\ GetPrompt(<<"prohibited_social_scoring">>)
          /\ llm_calls' = Append(llm_calls, LlmCall("prohibited_social_scoring", "-"))
       \/ /\ GetPrompt(<<"prohibited_social_scoring", "prohibited_manipulation">>)
          /\ llm_calls' = llm_calls \o <<LlmCall("prohibited_social_scoring", "-"),
                                         LlmCall("prohibited_manipulation", "-")>>
    /\ UNCHANGED retrieve_calls
    /\ Raise

\* Lines 203-213 and _analyze_category: one round of the category loop.
AnalyzeCategory ==
    /\ pc = "categories"
    /\ next_category <= Len(categories)
    /\ \E answer \in CategoryNarratives :
           LET category == categories[next_category]
               category_score == _extract_score(answer)
               analysis == [category |-> category, system_type |-> system_type,
                            score |-> category_score, analysis |-> answer]
           IN  /\ narrative' = answer
               /\ extracted' = category_score
               /\ results' = [results EXCEPT
                      !.category_scores = (category :> category_score) @@ @,
                      !.detailed_analysis = (category :> analysis) @@ @]
               /\ total_score' = total_score + category_score
               /\ retrieve_calls' = Append(retrieve_calls, RetrieveCall(category, system_type))
               /\ GetPrompt(CategoryPrompt(system_type, category))
               /\ llm_calls' = Append(llm_calls, LlmCall("category", category))
    /\ next_category' = next_category + 1
    /\ UNCHANGED <<reference_vars, pc, files, top_k, user_docs, initial_type, system_type,
                   documentary_evidence_of_prohibition, todo, saved>>

\* The retriever raises, or the oracle does.
AnalyzeCategoryRaises ==
    /\ pc = "categories"
    /\ next_category <= Len(categories)
    /\ retrieve_calls' = Append(retrieve_calls,
                                RetrieveCall(categories[next_category], system_type))
    /\ \/ UNCHANGED <<llm_calls, get_prompt_calls, prompt_vars>>
       \/ /\ GetPrompt(CategoryPrompt(system_type, categories[next_category]))
          /\ llm_calls' = Append(llm_calls, LlmCall("category", categories[next_category]))
    /\ Raise

\* The end of the category loop with the sum divided by the loop index.
Aggregate_DividesByIndex ==
    /\ pc = "categories"
    /\ next_category > Len(categories)
    /\ LET gaps == _identify_compliance_gaps(results.detailed_analysis)
       IN  /\ results' = [results EXCEPT
                  !.overall_score = total_score \div next_category,
                  !.compliance_gaps = gaps]
           /\ todo' = GapCategories(gaps, {})
    /\ pc' = "recommendations"
    /\ UNCHANGED <<reference_vars, files, top_k, user_docs, initial_type, system_type,
                   documentary_evidence_of_prohibition, next_category, total_score, saved,
                   llm_calls, retrieve_calls, get_prompt_calls, prompt_vars, narrative, extracted>>

\* The end of the category loop without the overall score.
Aggregate_NoOverall ==
    /\ pc = "categories"
    /\ next_category > Len(categories)
    /\ LET gaps == _identify_compliance_gaps(results.detailed_analysis)
       IN  /\ results' = [results EXCEPT !.compliance_gaps = gaps]
           /\ todo' = GapCategories(gaps, {})
    /\ pc' = "recommendations"
    /\ UNCHANGED <<reference_vars, files, top_k, user_docs, initial_type, system_type,
                   documentary_evidence_of_prohibition, next_category, total_score, saved,
                   llm_calls, retrieve_calls,
                   get_prompt_calls, prompt_vars, narrative, extracted>>

\* Lines 215-222 and 939-947: the overall score, the gaps, and the grouping
\* of the gaps by category.
Aggregate ==
    /\ pc = "categories"
    /\ next_category > Len(categories)
    /\ LET gaps == _identify_compliance_gaps(results.detailed_analysis)
       IN  /\ results' = [results EXCEPT
                  !.overall_score = total_score \div Len(categories),
                  !.compliance_gaps = gaps]
           /\ todo' = GapCategories(gaps, {})
    /\ pc' = "recommendations"
    /\ UNCHANGED <<reference_vars, files, top_k, user_docs, initial_type, system_type,
                   documentary_evidence_of_prohibition, next_category, total_score, saved,
                   llm_calls, retrieve_calls,
                   get_prompt_calls, prompt_vars, narrative, extracted>>

\* Lines 950-981: the recommendations of the next category that has gaps.
GenerateRecommendations ==
    /\ pc = "recommendations"
    /\ Len(todo) > 0
    /\ \E answer \in RecommendationAnswers :
           results' = [results EXCEPT !.recommendations =
               @ \o CategoryRecommendations(todo[1], results.compliance_gaps, answer)]
    /\ llm_calls' = Append(llm_calls, LlmCall("recommendation", todo[1]))
    /\ todo' = Tail(todo)
    /\ UNCHANGED <<reference_vars, pc, files, top_k, user_docs, initial_type, system_type,
                   documentary_evidence_of_prohibition, next_category, total_score, saved,
                   retrieve_calls, get_prompt_calls, prompt_vars, narrative, extracted>>

GenerateRecommendationsRaises ==
    /\ pc = "recommendations"
    /\ Len(todo) > 0
    /\ llm_calls' = Append(llm_calls, LlmCall("recommendation", todo[1]))
    /\ UNCHANGED <<retrieve_calls, get_prompt_calls, prompt_vars>>
    /\ Raise

\* Lines 225-228: _generate_recommendations returns.
RecommendationsDone ==
    /\ pc = "recommendations"
    /\ Len(todo) = 0
    /\ pc' = "persist"
    /\ UNCHANGED <<reference_vars, files, top_k, user_docs, initial_type, system_type,
                   documentary_evidence_of_prohibition, results, next_category,
                   total_score, todo, saved, llm_calls, retrieve_calls,
                   get_prompt_calls, prompt_vars, narrative,
                   extracted>>

\* Lines 230-235: the results are saved and returned.
SaveResults ==
    /\ pc = "persist"
    /\ saved' = <<results>>
    /\ pc' = "done"
    /\ UNCHANGED <<reference_vars, files, top_k, user_docs, initial_type, system_type,
                   documentary_evidence_of_prohibition, results, next_category,
                   total_score, todo, llm_calls, retrieve_calls,
                   get_prompt_calls, prompt_vars, narrative, extracted>>

Next ==
    \/ ClassifyByPreCheck
    \/ ClassifyByOracle
    \/ ClassifyOracleRaises
    \/ AnalyzeProhibited
    \/ AnalyzeProhibitedRaises
    \/ AnalyzeCategory
    \/ AnalyzeCategoryRaises
    \/ Aggregate
    \/ GenerateRecommendations
    \/ GenerateRecommendationsRaises
    \/ RecommendationsDone
    \/ SaveResults

Spec == Init /\ [][Next]_vars

(***************************************************************************)
(* analyze_compliance called with a top_k of the caller's choice.          *)
(***************************************************************************)
TopKs == {1, 5, 10}

InitTopK ==
    /\ pc = "start"
    /\ files = <<>>
    /\ top_k \in TopKs
    /\ user_docs \in SeqsUpTo(DocChunks, 1)
    /\ initial_type = "unset"
    /\ system_type = "unset"
    /\ documentary_evidence_of_prohibition = FALSE
    /\ results = NoResults
    /\ next_category = 1
    /\ total_score = 0
    /\ todo = <<>>
    /\ saved = <<>>
    /\ llm_calls = <<>>
    /\ retrieve_calls = <<>>
    /\ get_prompt_calls = <<>>
    /\ NoPromptLoaded
    /\ NoReferenceRun
    /\ narrative = <<>>
    /\ extracted = "pending"

SpecTopK == InitTopK /\ [][Next]_vars

(***************************************************************************)
(* main (src/src/main.py) from the check for user documentation on, next   *)
(* to calls of analyze_compliance made without it.                         *)
(***************************************************************************)
\* What a file of the documentation directory is split into: no chunk (an
\* empty or unreadable file) or one.
FileContents == {<<>>, <<ChunkWeather>>, <<ChunkCitizenScore>>, <<ChunkMediScan>>}

\* ingest_documents: the documents with at least one chunk, in file order.
ingest_documents_KeepsAll(fs) == fs

ingest_documents(fs) == SelectSeq(fs, LAMBDA chunks : chunks # <<>>)

\* all_chunks of main.analyze_compliance: the chunks of all documents.
RECURSIVE all_chunks(_)
all_chunks(processed_docs) ==
    IF Len(processed_docs) = 0 THEN <<>>
    ELSE processed_docs[1] \o all_chunks(Tail(processed_docs))

InitMain ==
    /\ \/ /\ pc = "main"
          /\ files \in SeqsUpTo(FileContents, MaxFiles)
          /\ user_docs = <<>>
       \/ /\ pc = "start"
          /\ files = <<>>
          /\ user_docs \in SeqsUpTo(DocChunks, 1)
    /\ top_k = 5
    /\ initial_type = "unset"
    /\ system_type = "unset"
    /\ documentary_evidence_of_prohibition = FALSE
    /\ results = NoResults
    /\ next_category = 1
    /\ total_score = 0
    /\ todo = <<>>
    /\ saved = <<>>
    /\ llm_calls = <<>>
    /\ retrieve_calls = <<>>
    /\ get_prompt_calls = <<>>
    /\ NoPromptLoaded
    /\ NoReferenceRun
    /\ narrative = <<>>
    /\ extracted = "pending"

\* A step of main outside analyze_compliance.
MainStep(to) ==
    /\ pc' = to
    /\ UNCHANGED <<reference_vars, files, top_k, initial_type, system_type,
                   documentary_evidence_of_prohibition, results, next_category,
                   total_score, todo, saved, llm_calls, retrieve_calls, get_prompt_calls, prompt_vars,
                   narrative, extracted>>

\* Lines 156-163: no file in the documentation directory; main returns.
MainNoUserDocs ==
    /\ pc = "main"
    /\ files = <<>>
    /\ MainStep("no_files")
    /\ UNCHANGED user_docs

\* Lines 165-170: no document was processed; main returns.
MainNoProcessedDocs ==
    /\ pc = "main"
    /\ files # <<>>
    /\ ingest_documents(files) = <<>>
    /\ MainStep("no_processed_docs")
    /\ UNCHANGED user_docs

\* Lines 172-173 and 105-113: the analyzer is given the chunks of all
\* processed documents.
MainAnalyze ==
    /\ pc = "main"
    /\ files # <<>>
    /\ ingest_documents(files) # <<>>
    /\ user_docs' = all_chunks(ingest_documents(files))
    /\ MainStep("start")

\* Lines 175-176: the report is generated from the results.
MainReport ==
    /\ pc = "done"
    /\ files # <<>>
    /\ MainStep("reported")
    /\ UNCHANGED user_docs

NextMain ==
    \/ MainNoUserDocs
    \/ MainNoProcessedDocs
    \/ MainAnalyze
    \/ MainReport
    \/ Next

SpecMain == InitMain /\ [][NextMain]_vars

(***************************************************************************)
(* _identify_compliance_gaps called on its own.                            *)
(***************************************************************************)
\* "compliance score: 0.d"
ScoreStatement(d) == <<"compliance", " ", "score", ":", " ", "0", ".", d>>

\* Narratives of a category: a score statement, or one out of ten, or none,
\* followed by a sentence with or without a gap word.
GapNarratives ==
    {head \o <<".", " ">> \o sentence :
        head \in {ScoreStatement(d) : d \in {"0", "2", "3", "4", "5", "6", "7", "8"}}
                 \cup {PieceScore75of10, PieceNoScore},
        sentence \in {NarrativeMissingLogs, <<"all", " ", "requirements", " ", "met", ".">>}}

\* What _analyze_category returns for a category and a narrative (lines 837-848).
CategoryAnalysis(category, type, answer) ==
    [category |-> category, system_type |-> type, score |-> _extract_score(answer),
     analysis |-> answer]

\* The detailed_analysis dictionaries of the first n categories.
DetailedAnalyses(n) ==
    {[c \in {categories[i] : i \in 1..n} |-> CategoryAnalysis(c, "high-risk", f[c])] :
        f \in [{categories[i] : i \in 1..n} -> GapNarratives]}

InitGaps ==
    /\ pc = "gaps"
    /\ \E n \in 1..MaxGapCategories : \E detailed_analysis \in DetailedAnalyses(n) :
           results = [NoResults EXCEPT !.detailed_analysis = detailed_analysis]
    /\ files = <<>>
    /\ top_k = 5
    /\ user_docs = <<>>
    /\ initial_type = "unset"
    /\ system_type = "unset"
    /\ documentary_evidence_of_prohibition = FALSE
    /\ next_category = 1
    /\ total_score = 0
    /\ todo = <<>>
    /\ saved = <<>>
    /\ llm_calls = <<>>
    /\ retrieve_calls = <<>>
    /\ get_prompt_calls = <<>>
    /\ NoPromptLoaded
    /\ NoReferenceRun
    /\ narrative = <<>>
    /\ extracted = "pending"

\* Lines 904-924: the gaps of the dictionary are returned.
IdentifyGaps ==
    /\ pc = "gaps"
    /\ results' = [results EXCEPT
           !.compliance_gaps = _identify_compliance_gaps(results.detailed_analysis)]
    /\ pc' = "gaps_returned"
    /\ UNCHANGED <<reference_vars, files, top_k, user_docs, initial_type, system_type,
                   documentary_evidence_of_prohibition, next_category, total_score, todo,
                   saved, llm_calls, retrieve_calls, get_prompt_calls, prompt_vars, narrative,
                   extracted>>

NextGaps == IdentifyGaps

SpecGaps == InitGaps /\ [][NextGaps]_vars

(***************************************************************************)
(* _extract_score called on its own, on any narrative.                     *)
(***************************************************************************)
InitScore ==
    /\ pc = "extract"
    /\ narrative \in Narratives
    /\ extracted = "pending"
    /\ files = <<>>
    /\ top_k = 5
    /\ user_docs = <<>>
    /\ initial_type = "unset"
    /\ system_type = "unset"
    /\ documentary_evidence_of_prohibition = FALSE
    /\ results = NoResults
    /\ next_category = 1
    /\ total_score = 0
    /\ todo = <<>>
    /\ saved = <<>>
    /\ llm_calls = <<>>
    /\ retrieve_calls = <<>>
    /\ get_prompt_calls = <<>>
    /\ NoPromptLoaded
    /\ NoReferenceRun

Returns(value) ==
    /\ extracted' = value
    /\ pc' = "returned"
    /\ UNCHANGED <<reference_vars, files, top_k, user_docs, initial_type, system_type,
                   documentary_evidence_of_prohibition, results, next_category,
                   total_score, todo, saved, llm_calls, retrieve_calls,
                   get_prompt_calls, prompt_vars, narrative>>

\* Lines 873-885: a template matches and its group is converted.
ExtractScoreMatch ==
    /\ pc = "extract"
    /\ FirstMatching(score_patterns, 1, narrative) # 0
    /\ Returns(_extract_score(narrative))

\* Lines 887-889: no template matches.
ExtractScoreDefault ==
    /\ pc = "extract"
    /\ FirstMatching(score_patterns, 1, narrative) = 0
    /\ Returns(_extract_score(narrative))

NextScore ==
    \/ ExtractScoreMatch
    \/ ExtractScoreDefault

SpecScore == InitScore /\ [][NextScore]_vars

(***************************************************************************)
(* Properties of a run of analyze_compliance.                              *)
(***************************************************************************)
\* The documentation holds a proof phrase of the override pass.
HasProofPhrase == AnyMatchLower(prohibited_indicators, Lower(AllText(user_docs)))

\* The documentation holds an unambiguous customer-service-bot phrase.
HasChatbotPhrase == AnyMatchLower(chatbot_indicators, Lower(AllText(user_docs)))

SixCategories == {"risk_assessment", "data_governance", "technical_robustness",
                  "transparency", "human_oversight", "accountability"}

\* C1: a completed run on a corpus that holds a Prohibited proof phrase ends
\* with system_type "prohibited", in the results it returns and in the ones it
\* saved, whatever the pre-check or the oracle said first.
C1_ProofPhraseForcesProhibited ==
    (pc = "done" /\ HasProofPhrase) =>
        /\ system_type = "prohibited"
        /\ results.system_type = "prohibited"
        /\ saved[1].system_type = "prohibited"

\* A completed run on a corpus with a proof phrase that the pre-check took
\* for a limited-risk system.
C1_Witness ==
    /\ pc = "done"
    /\ HasProofPhrase
    /\ initial_type = "limited-risk"
    /\ llm_calls[1].prompt # "system_classification"

\* C2: a completed run whose final category is Prohibited has overall_score
\* 0.0, a score of 0.0 for each of the six categories, and exactly one
\* recommendation, of category "prohibited_use" and priority "high".
C2_ProhibitedRunIsAllZero ==
    (pc = "done" /\ results.system_type = "prohibited") =>
        /\ results.overall_score = 0
        /\ DOMAIN results.category_scores = SixCategories
        /\ \A c \in SixCategories : results.category_scores[c] = 0
        /\ Len(results.recommendations) = 1
        /\ results.recommendations[1].category = "prohibited_use"
        /\ results.recommendations[1].priority = "high"

\* A completed Prohibited run, both prohibition prompts answered.
C2_Witness ==
    /\ pc = "done"
    /\ results.system_type = "prohibited"
    /\ Len(llm_calls) >= 2
    /\ llm_calls[Len(llm_calls)].prompt = "prohibited_manipulation"

\* C3, as the specification states it: in a completed run overall_score is
\* 0.0 if and only if the final classification is Prohibited.
C3_ZeroIffProhibited ==
    pc = "done" => (results.overall_score = 0 <=> results.system_type = "prohibited")

\* C3, as the code has it: a completed Prohibited run has overall_score 0.0,
\* and a completed run of any other category has overall_score 0.0 exactly
\* when the score extracted for each of the six categories is 0.0.
C3_ZeroIffAllCategoriesZero ==
    pc = "done" =>
        /\ results.system_type = "prohibited" => results.overall_score = 0
        /\ results.system_type # "prohibited" =>
               /\ DOMAIN results.category_scores = SixCategories
               /\ results.overall_score = 0
                      <=> \A c \in SixCategories : results.category_scores[c] = 0

\* A completed run of another category than Prohibited in which some
\* category narratives gave 0.0 and some did not.
C3_Witness ==
    /\ pc = "done"
    /\ results.system_type # "prohibited"
    /\ results.overall_score > 0
    /\ \E c \in SixCategories : results.category_scores[c] = 0

\* No template of _extract_score matches the text.
NoTemplateMatches(text) ==
    \A k \in 1..Len(score_patterns) : GroupMatches(score_patterns[k], text) = {}

\* C8: when no score template matches the narrative of a category,
\* _extract_score returns 0.5, that score is stored for the category, and the
\* category loop goes on with the next category.
C8_NoMatchGivesHalf ==
    [][(pc = "categories" /\ next_category' = next_category + 1
          /\ NoTemplateMatches(narrative'))
       => /\ 2 * extracted' = ScoreOne
          /\ 2 * results'.category_scores[categories[next_category]] = ScoreOne
          /\ pc' = "categories"]_vars

\* The loop has gone past a category whose narrative held no score and has
\* analysed the category after it.
C8_Witness ==
    /\ pc = "categories"
    /\ next_category = 4
    /\ 2 * results.category_scores[categories[2]] = ScoreOne
    /\ results.detailed_analysis[categories[2]].analysis = NarrativeMissingLogs
    /\ categories[3] \in DOMAIN results.category_scores

\* C9: the pre-check returns the first category, in the order Prohibited
\* (weight 15 or more), limited-risk (10 or more), minimal-risk (10 or more),
\* high-risk (10 or more), whose accumulated weight reaches its threshold, and
\* the oracle is asked only if none does.
C9_PreCheckPriority ==
    (pc \in {"prohibited", "categories"} /\ next_category = 1) =>
        LET text == Lower(AllText(user_docs))
            p == IndicatorScore(social_scoring_indicators, text) >= 15
            l == IndicatorScore(limited_risk_indicators, text) >= 10
            m == IndicatorScore(product_recommender_indicators, text) >= 10
            h == IndicatorScore(high_risk_indicators, text) >= 10
            asked == Len(llm_calls) > 0 /\ llm_calls[1].prompt = "system_classification"
        IN  /\ p => initial_type = "prohibited"
            /\ (~p /\ l) => initial_type = "limited-risk"
            /\ (~p /\ ~l /\ m) => initial_type = "minimal-risk"
            /\ (~p /\ ~l /\ ~m /\ h) => initial_type = "high-risk"
            /\ asked <=> ~(p \/ l \/ m \/ h)

\* A corpus that reaches the threshold of a carve-out and the one of
\* high-risk, classified as the carve-out without the oracle.
C9_Witness ==
    /\ pc = "categories"
    /\ next_category = 1
    /\ IndicatorScore(high_risk_indicators, Lower(AllText(user_docs))) >= 10
    /\ IndicatorScore(limited_risk_indicators, Lower(AllText(user_docs))) < 10
    /\ IndicatorScore(product_recommender_indicators, Lower(AllText(user_docs))) >= 10
    /\ initial_type = "minimal-risk"
    /\ llm_calls = <<>>

\* C10: a completed run on a corpus that holds a customer-service-bot phrase
\* and no proof phrase, and whose first classification is not Prohibited,
\* ends with system_type "limited-risk".
C10_ChatbotForcesLimitedRisk ==
    (pc = "done" /\ HasChatbotPhrase /\ ~HasProofPhrase /\ initial_type # "prohibited") =>
        /\ system_type = "limited-risk"
        /\ results.system_type = "limited-risk"

\* A completed run on a corpus with a chatbot phrase and medical imaging,
\* which the pre-check took for a high-risk system.
C10_Witness ==
    /\ pc = "done"
    /\ HasChatbotPhrase
    /\ AnyMatchLower(medical_indicators, Lower(AllText(user_docs)))
    /\ initial_type = "high-risk"
    /\ results.system_type = "limited-risk"

\* C11, as the specification states it: a failure of the oracle call made
\* for classification is caught inside classification, so no run is aborted
\* before it has a category.
C11_ClassificationFailureIsCaught ==
    pc = "failed" => initial_type # "unset"

\* C12: the analysis file is written at most once in a run, and only when
\* classification, the scoring of all six categories and the synthesis of gaps
\* and recommendations are done; a step in which an oracle or retrieval call
\* fails writes nothing, so a failed run leaves the file as it found it.
C12_SavedOnceWhenComplete ==
    [][/\ saved' # saved =>
              /\ pc = "persist" /\ pc' = "done"
              /\ saved = <<>> /\ saved' = <<results>>
              /\ initial_type # "unset"
              /\ DOMAIN results.category_scores = SixCategories
              /\ results.system_type # "prohibited" =>
                     todo = <<>> /\ Len(llm_calls) >= Len(categories)
       /\ pc' = "failed" => saved' = saved /\ saved = <<>>
       /\ pc \in {"done", "failed"} => saved' = saved]_vars

\* A run that failed in the category loop, two categories analysed, and
\* wrote no file.
C12_Witness ==
    /\ pc = "failed"
    /\ next_category = 3
    /\ Len(retrieve_calls) = 3
    /\ saved = <<>>

\* C13, as the specification states it: with no documentation chunk the run
\* makes no oracle call and raises nothing.
C13_NoChunksNoOracleCall ==
    user_docs = <<>> => (llm_calls = <<>> /\ get_prompt_calls = <<>> /\ pc # "failed")

\* C13, as the code has it: when main finds no documentation file, or no
\* processed document, it returns without a prompt loaded, an oracle or
\* retrieval call made or anything raised, and main never calls the analyzer
\* with an empty chunk list; analyze_compliance called with an empty chunk
\* list has no such guard and asks the oracle to classify the empty text.
C13_MainAbortsAnalyzerDoesNot ==
    /\ pc \in {"no_files", "no_processed_docs"} =>
           /\ llm_calls = <<>> /\ get_prompt_calls = <<>> /\ retrieve_calls = <<>>
           /\ saved = <<>>
    /\ (files # <<>> /\ \A i \in 1..Len(files) : files[i] = <<>>) =>
           pc \in {"main", "no_processed_docs"}
    /\ (files # <<>> /\ pc \notin {"main", "no_processed_docs"}) => user_docs # <<>>
    /\ (files = <<>> /\ user_docs = <<>> /\ pc \notin {"main", "no_files", "start"}) =>
           /\ get_prompt_calls[1] = "system_classification"
           /\ llm_calls[1].prompt = "system_classification"

\* main has returned: there were two files and neither gave a chunk.
C13_Witness ==
    /\ pc = "no_processed_docs"
    /\ Len(files) = 2
    /\ llm_calls = <<>>

\* The sum of the scores stored for the categories k.. of a sequence of
\* category names.
RECURSIVE SumOfScores(_, _, _)
SumOfScores(scores, names, k) ==
    IF k > Len(names) THEN 0 ELSE scores[names[k]] + SumOfScores(scores, names, k + 1)

SixInOrder == <<"risk_assessment", "data_governance", "technical_robustness",
                "transparency", "human_oversight", "accountability">>

\* C14: in a completed run of another category than Prohibited,
\* category_scores holds exactly the six category names and overall_score is
\* the sum of the six stored scores divided by 6.
C14_OverallIsMeanOfSix ==
    (pc = "done" /\ results.system_type # "prohibited") =>
        /\ DOMAIN results.category_scores = SixCategories
        /\ 6 * results.overall_score = SumOfScores(results.category_scores, SixInOrder, 1)

\* A completed run in which two of the six narratives gave 0.5 and four 0.0:
\* the mean is a sixth of 1.0.
C14_Witness ==
    /\ pc = "done"
    /\ results.system_type # "prohibited"
    /\ Cardinality({c \in SixCategories : 2 * results.category_scores[c] = ScoreOne}) = 2
    /\ 6 * results.overall_score = ScoreOne

\* C15, as the specification states it: every retrieve call of a run asks
\* for as many passages as the top_k argument of analyze_compliance says.
C15_RetrieveAsksForTopK ==
    \A i \in 1..Len(retrieve_calls) : retrieve_calls[i].top_k = top_k

\* The documentation holds an unambiguous medical-diagnosis phrase.
HasMedicalPhrase == AnyMatchLower(medical_indicators, Lower(AllText(user_docs)))

\* C16, as the specification states it: a completed run on a corpus that holds
\* a medical-diagnosis phrase and is not Prohibited (no proof phrase, first
\* classification not Prohibited) ends with system_type "high-risk".
C16_MedicalForcesHighRisk ==
    (pc = "done" /\ HasMedicalPhrase /\ ~HasProofPhrase /\ initial_type # "prohibited") =>
        results.system_type = "high-risk"

\* C16, as the code has it: such a run ends with system_type "high-risk" if
\* the corpus holds no customer-service-bot phrase, and with "limited-risk"
\* if it holds one.
C16_MedicalForcesHighRiskUnlessChatbot ==
    (pc = "done" /\ HasMedicalPhrase /\ ~HasProofPhrase /\ initial_type # "prohibited") =>
        results.system_type = IF HasChatbotPhrase THEN "limited-risk" ELSE "high-risk"

\* A completed run on a corpus with a medical phrase and no chatbot phrase
\* that was first classified minimal-risk and ends high-risk.
C16_Witness ==
    /\ pc = "done"
    /\ HasMedicalPhrase
    /\ ~HasChatbotPhrase
    /\ initial_type = "minimal-risk"
    /\ results.system_type = "high-risk"

\* A pre-check of the four reaches its threshold on the documentation.
SomePreCheckFires ==
    LET text == Lower(AllText(user_docs))
    IN  \/ IndicatorScore(social_scoring_indicators, text) >= 15
        \/ IndicatorScore(limited_risk_indicators, text) >= 10
        \/ IndicatorScore(product_recommender_indicators, text) >= 10
        \/ IndicatorScore(high_risk_indicators, text) >= 10

\* The calls a step adds to a log of calls.
NewCalls(log_before, log_after) == SubSeq(log_after, Len(log_before) + 1, Len(log_after))

\* C17: the step that classifies loads the classification prompt and sends
\* it to the oracle, once, if no pre-check reaches its threshold, and does
\* neither if one does; no other step of a run loads or sends that prompt.
C17_ClassificationCallIffNoPreCheck ==
    [][LET asked  == NewCalls(llm_calls, llm_calls')
           loaded == NewCalls(get_prompt_calls, get_prompt_calls')
       IN  /\ pc = "start" =>
                  IF SomePreCheckFires
                  THEN asked = <<>> /\ loaded = <<>>
                  ELSE /\ asked = <<[prompt |-> "system_classification", category |-> "-"]>>
                       /\ loaded = <<"system_classification">>
           /\ pc # "start" =>
                  /\ \A i \in 1..Len(asked) : asked[i].prompt # "system_classification"
                  /\ \A i \in 1..Len(loaded) : loaded[i] # "system_classification"]_vars

\* A completed run which the limited-risk pre-check classified: six category
\* calls and no classification call.
C17_Witness ==
    /\ pc = "done"
    /\ initial_type = "limited-risk"
    /\ IndicatorScore(limited_risk_indicators, Lower(AllText(user_docs))) >= 10
    /\ Len(llm_calls) >= 6
    /\ \A i \in 1..Len(llm_calls) : llm_calls[i].prompt # "system_classification"
    /\ get_prompt_calls = <<>>

\* The oracle calls of a run after its classification call, if it made one.
CallsAfterClassification ==
    IF Len(llm_calls) > 0 /\ llm_calls[1].prompt = "system_classification"
    THEN Tail(llm_calls) ELSE llm_calls

\* C18: a run whose final category is Prohibited makes no retrieval call
\* and no category or recommendation call; after classification its oracle
\* calls are the social-scoring check and then the manipulation check, each
\* once, both made when the run completes.
C18_ProhibitedRunAsksTwoChecks ==
    system_type = "prohibited" =>
        LET calls == CallsAfterClassification
            checks == <<[prompt |-> "prohibited_social_scoring", category |-> "-"],
                        [prompt |-> "prohibited_manipulation", category |-> "-"]>>
        IN  /\ retrieve_calls = <<>>
            /\ Len(calls) <= 2
            /\ calls = SubSeq(checks, 1, Len(calls))
            /\ pc \in {"persist", "done"} => calls = checks

\* A completed run that the oracle first classified otherwise and the proof
\* phrase made Prohibited: three oracle calls in all.
C18_Witness ==
    /\ pc = "done"
    /\ system_type = "prohibited"
    /\ initial_type = "high-risk"
    /\ Len(llm_calls) = 3
    /\ llm_calls[3].prompt = "prohibited_manipulation"

\* The category calls among the oracle calls of a log.
CategoryCalls(log) == SelectSeq(log, LAMBDA call : call.prompt = "category")

\* C19: in a run of another category than Prohibited the retrieval calls and
\* the category calls of the oracle each go through risk_assessment,
\* data_governance, technical_robustness, transparency, human_oversight,
\* accountability in this order, one call each; a step adds at most one of
\* each, the retrieval of a category is made before its oracle call and after
\* the oracle call of the category before it, and the run goes on to the
\* recommendations only with all six of both made.
C19_SixCategoriesInOrder ==
    [][LET r  == retrieve_calls
           rn == retrieve_calls'
           c  == CategoryCalls(llm_calls)
           cn == CategoryCalls(llm_calls')
       IN  system_type' \notin {"unset", "prohibited"} =>
               /\ Len(rn) <= 6
               /\ Len(r) <= Len(rn) /\ Len(rn) <= Len(r) + 1
               /\ Len(c) <= Len(cn) /\ Len(cn) <= Len(c) + 1
               /\ \A i \in 1..Len(rn) : rn[i].category = SixInOrder[i]
               /\ \A i \in 1..Len(cn) : cn[i].category = SixInOrder[i]
               /\ Len(cn) <= Len(rn) /\ Len(rn) <= Len(cn) + 1
               /\ Len(rn) = Len(r) + 1 => Len(r) = Len(c)
               /\ Len(rn) = Len(cn) + 1 => pc' = "failed"
               /\ pc' \in {"recommendations", "persist", "done"} =>
                      Len(rn) = 6 /\ Len(cn) = 6]_vars

\* A completed minimal-risk run: six retrievals and six category calls, the
\* last ones for accountability.
C19_Witness ==
    /\ pc = "done"
    /\ system_type = "minimal-risk"
    /\ Len(retrieve_calls) = 6
    /\ retrieve_calls[6].category = "accountability"
    /\ Len(CategoryCalls(llm_calls)) = 6

\* The prohibition analysis has been stored.
HasProhibitionAnalysis ==
    pc \in {"persist", "done"} /\ "prohibition_analysis" \in DOMAIN results

\* The corpus holds a social-scoring feature phrase.
HasFeaturePhrase ==
    \E i \in 1..Len(social_scoring_features) :
        re_search(social_scoring_features[i], Lower(AllText(user_docs)))

\* An affirmative pattern is found in the answer and no negative one.
Affirms(answer) ==
    /\ \E i \in 1..Len(affirmative_patterns) : re_search(affirmative_patterns[i], Lower(answer))
    /\ \A i \in 1..Len(negative_patterns) : ~re_search(negative_patterns[i], Lower(answer))

\* C25: is_social_scoring holds exactly when the corpus holds a social-scoring
\* feature phrase or the social-scoring answer is affirmative and not
\* negative; is_manipulation holds exactly when the manipulation answer is
\* affirmative and not negative; is_prohibited is their disjunction.
C25_ProhibitionVerdicts ==
    HasProhibitionAnalysis =>
        LET a == results.prohibition_analysis IN
        /\ a.social_scoring.is_social_scoring
               <=> (HasFeaturePhrase \/ Affirms(a.social_scoring.evidence))
        /\ a.manipulation.is_manipulation <=> Affirms(a.manipulation.evidence)
        /\ a.is_prohibited
               <=> (a.social_scoring.is_social_scoring \/ a.manipulation.is_manipulation)

\* The corpus holds a feature phrase and the oracle answers "no" twice: the
\* system is a social-scoring system all the same.
C25_Witness ==
    /\ HasProhibitionAnalysis
    /\ HasFeaturePhrase
    /\ results.prohibition_analysis.social_scoring.evidence = AnswerNo
    /\ results.prohibition_analysis.manipulation.evidence = AnswerNo
    /\ results.prohibition_analysis.social_scoring.is_social_scoring
    /\ ~results.prohibition_analysis.manipulation.is_manipulation
    /\ results.prohibition_analysis.is_prohibited

\* C26, as the specification states it: every completed run whose final
\* category is prohibited stores a prohibition analysis that carries an
\* article and an explanation beside the two verdicts.
C26_ProhibitedRunCarriesArticle ==
    (pc = "done" /\ results.system_type = "prohibited") =>
        /\ "prohibition_analysis" \in DOMAIN saved[1]
        /\ {"article", "explanation", "social_scoring", "manipulation"}
               \subseteq DOMAIN saved[1].prohibition_analysis

\* The recommendation calls of the oracle, and the first gap of a category.
RecommendationCalls == SelectSeq(llm_calls, LAMBDA call : call.prompt = "recommendation")
FirstGapOf(category) ==
    CHOOSE i \in 1..Len(results.compliance_gaps) :
        /\ results.compliance_gaps[i].category = category
        /\ \A j \in 1..(i - 1) : results.compliance_gaps[j].category # category

\* C29: a completed run of another category than Prohibited has made one
\* recommendation call for each category that has a gap, in the order of the
\* first gaps of the categories, and none for a category without gaps; without
\* gaps it has made none and its list of recommendations is empty; it has made
\* at most 1 + 6 + 6 oracle calls.
C29_OneRecommendationCallPerGapCategory ==
    (pc \in {"persist", "done"} /\ "prohibition_analysis" \notin DOMAIN results) =>
        LET calls == RecommendationCalls
            gaps  == results.compliance_gaps
        IN  /\ {calls[i].category : i \in 1..Len(calls)}
                   = {gaps[i].category : i \in 1..Len(gaps)}
            /\ \A i, j \in 1..Len(calls) :
                   i < j => FirstGapOf(calls[i].category) < FirstGapOf(calls[j].category)
            /\ Len(gaps) = 0 => (Len(calls) = 0 /\ results.recommendations = <<>>)
            /\ Len(llm_calls) <= 1 + Len(categories) + Len(categories)

\* A run the oracle classified, with gaps in some categories and none in others.
C29_Witness ==
    /\ pc = "done"
    /\ "prohibition_analysis" \notin DOMAIN results
    /\ llm_calls[1].prompt = "system_classification"
    /\ Len(RecommendationCalls) = 3
    /\ {RecommendationCalls[i].category : i \in 1..3}
           = {"data_governance", "transparency", "accountability"}
    /\ Len(llm_calls) = 1 + Len(categories) + 3

(***************************************************************************)
(* Properties of _extract_score.                                           *)
(***************************************************************************)
\* The positions of the digits of a text.
DigitPositions(text) == {i \in 1..Len(text) : text[i] \in Digits}

\* The text reads a percentage, of one to three digits, and holds no other
\* digit: the value of the percentage, or -1.
OnlyPercentage(text) ==
    LET D == DigitPositions(text) IN
    IF D = {} THEN -1
    ELSE LET a == CHOOSE i \in D : \A j \in D : i <= j
             b == CHOOSE i \in D : \A j \in D : i >= j
             v == IF b = a THEN DigitVal(text[a])
                  ELSE IF b = a + 1 THEN 10 * DigitVal(text[a]) + DigitVal(text[b])
                  ELSE 100 * DigitVal(text[a]) + 10 * DigitVal(text[a + 1]) + DigitVal(text[b])
         IN  IF D = a..b /\ b - a <= 2 /\ b < Len(text) /\ text[b + 1] = "%" /\ v <= 100
             THEN v ELSE -1

\* The text reads a fraction X/10, X one digit, and holds no other digit:
\* the digit X, or -1.
OnlyTenths(text) ==
    LET D == DigitPositions(text) IN
    IF D = {} THEN -1
    ELSE LET a == CHOOSE i \in D : \A j \in D : i <= j
         IN  IF D = {a, a + 2, a + 3} /\ text[a + 1] = "/" /\ text[a + 2] = "1"
                /\ text[a + 3] = "0"
             THEN DigitVal(text[a]) ELSE -1

\* The text reads "compliance score", in any case, from position i on, and
\* after it, with no digit in between, a number of the form X.Y.
ScoreStatementAt(text, i) ==
    /\ i + 2 <= Len(text)
    /\ Lower(SubSeq(text, i, i + 2)) = <<"compliance", " ", "score">>
    /\ \E j \in (i + 3)..(Len(text) - 2) :
           /\ \A k \in (i + 3)..(j - 1) : text[k] \notin Digits
           /\ text[j] \in Digits /\ text[j + 1] = "." /\ text[j + 2] \in Digits

\* The text reads "compliance score: 0.8", in any case, from position i on.
ReadsScore08At(text, i) ==
    /\ i + 7 <= Len(text)
    /\ Lower(SubSeq(text, i, i + 7)) = <<"compliance", " ", "score", ":", " ", "0", ".", "8">>

\* C4, as the specification states it: the score _extract_score returns
\* lies in the closed interval from 0.0 to 1.0, whatever the narrative.
C4_ScoreInUnitInterval ==
    pc = "returned" => (0 <= extracted /\ extracted <= ScoreOne)

\* C5, as the specification states it: for a narrative whose only number is
\* a percentage P%, P from 0 to 100, _extract_score returns P/100.
C5_PercentageIsDividedBy100 ==
    (pc = "returned" /\ OnlyPercentage(narrative) >= 0) =>
        100 * extracted = OnlyPercentage(narrative) * ScoreOne

\* C6, as the specification states it: for a narrative whose only number is
\* a fraction X/10, X one digit, _extract_score returns X/10.
C6_TenthsIsDividedBy10 ==
    (pc = "returned" /\ OnlyTenths(narrative) >= 0) =>
        10 * extracted = OnlyTenths(narrative) * ScoreOne

\* C7, as the specification states it: for every narrative that contains
\* "compliance score: 0.8", _extract_score returns 0.8.
C7_Score08IsReturned ==
    (pc = "returned" /\ \E i \in 1..Len(narrative) : ReadsScore08At(narrative, i)) =>
        10 * extracted = 8 * ScoreOne

\* C7, as the code has it: for every narrative that contains "compliance
\* score: 0.8" with no earlier "compliance score" that a number X.Y follows,
\* no digit in between, _extract_score returns 0.8, also when a percentage or
\* a fraction X/10 stands elsewhere in the narrative.
C7_FirstScoreStatementIsReturned ==
    (pc = "returned"
       /\ \E i \in 1..Len(narrative) :
              /\ ReadsScore08At(narrative, i)
              /\ \A j \in 1..(i - 1) : ~ScoreStatementAt(narrative, j))
    => 10 * extracted = 8 * ScoreOne

\* A narrative with a percentage before its "compliance score: 0.8", for
\* which 0.8 was returned.
C7_Witness ==
    /\ pc = "returned"
    /\ narrative = JoinPieces(<<PiecePercent75, PieceScore08>>)
    /\ 10 * extracted = 8 * ScoreOne

(***************************************************************************)
(* Properties of _identify_compliance_gaps.                                *)
(***************************************************************************)
\* C20: _identify_compliance_gaps returns gaps only of categories whose score
\* is below 0.7, none of a category that scores 0.7 or more, and every gap
\* has the severity of the band of its category's score: "high" below 0.3,
\* "medium" from 0.3 to below 0.5, "low" from 0.5 to below 0.7.
C20_GapsBelowSevenTenthsByBand ==
    pc = "gaps_returned" =>
        \A i \in 1..Len(results.compliance_gaps) :
            LET gap == results.compliance_gaps[i]
                sc  == results.detailed_analysis[gap.category].score
            IN  /\ gap.category \in DOMAIN results.detailed_analysis
                /\ 10 * sc < 7 * ScoreOne
                /\ 10 * sc < 3 * ScoreOne => gap.severity = "high"
                /\ (3 * ScoreOne <= 10 * sc /\ 10 * sc < 5 * ScoreOne) => gap.severity = "medium"
                /\ (5 * ScoreOne <= 10 * sc /\ 10 * sc < 7 * ScoreOne) => gap.severity = "low"

\* Two categories whose narratives both name a gap: the one scoring exactly
\* 0.3 has a gap of severity "medium", the one scoring exactly 0.7 has none.
C20_Witness ==
    /\ pc = "gaps_returned"
    /\ DOMAIN results.detailed_analysis = {"risk_assessment", "data_governance"}
    /\ 10 * results.detailed_analysis["risk_assessment"].score = 3 * ScoreOne
    /\ 10 * results.detailed_analysis["data_governance"].score = 7 * ScoreOne
    /\ results.detailed_analysis["data_governance"].analysis
           = ScoreStatement("7") \o <<".", " ">> \o NarrativeMissingLogs
    /\ Len(results.compliance_gaps) = 1
    /\ results.compliance_gaps[1].category = "risk_assessment"
    /\ results.compliance_gaps[1].severity = "medium"

(***************************************************************************)
(* _generate_recommendations on the gaps of _identify_compliance_gaps.     *)
(***************************************************************************)

\* Lines 939-947: the gaps are grouped by category, the categories kept in
\* the order of their first gap.
GroupGapsByCategory ==
    /\ pc = "gaps_returned"
    /\ todo' = GapCategories(results.compliance_gaps, {})
    /\ pc' = "recommendations"
    /\ UNCHANGED <<reference_vars, files, top_k, user_docs, initial_type, system_type,
                   documentary_evidence_of_prohibition, results, next_category,
                   total_score, saved, llm_calls, retrieve_calls, get_prompt_calls, prompt_vars,
                   narrative, extracted>>

NextRecommendations ==
    \/ IdentifyGaps
    \/ GroupGapsByCategory
    \/ GenerateRecommendations
    \/ GenerateRecommendationsRaises
    \/ RecommendationsDone

SpecRecommendations == InitGaps /\ [][NextRecommendations]_vars

(***************************************************************************)
(* Properties of _generate_recommendations.                                *)
(***************************************************************************)

\* The gaps of a category.
GapsOf(category) == SelectSeq(results.compliance_gaps, LAMBDA g : g.category = category)

\* C21: every recommendation has the priority "high" if a gap of its category
\* has the severity "high" and "medium" otherwise; it is never "low", and it
\* is "high" exactly when the score of its category is below 0.3.
C21_PriorityFollowsSeverity ==
    pc \in {"recommendations", "persist"} =>
        \A i \in 1..Len(results.recommendations) :
            LET r    == results.recommendations[i]
                gaps == GapsOf(r.category)
                high == \E j \in 1..Len(gaps) : gaps[j].severity = "high"
            IN  /\ r.priority = (IF high THEN "high" ELSE "medium")
                /\ r.priority # "low"
                /\ r.priority = "high"
                       <=> results.detailed_analysis[r.category].score * 10 < 3 * ScoreOne

\* Recommendations of a category below 0.3 and of one that is not have been made.
C21_Witness ==
    /\ pc = "persist"
    /\ \E i \in 1..Len(results.recommendations) :
           results.recommendations[i].priority = "high"
    /\ \E i \in 1..Len(results.recommendations) :
           /\ results.recommendations[i].priority = "medium"
           /\ GapsOf(results.recommendations[i].category)[1].severity = "low"

(***************************************************************************)
(* _determine_system_type_improved on a documentation text and the answer  *)
(* the oracle gives to the classification prompt.                          *)
(***************************************************************************)
MaxLines == 2

\* "classify as limited-risk"
LineClassifyAsLimited == Words(<<"classif", "+", "y", "as", "limited-risk">>)
\* "a chatbot for medical diagnosis"
LineMedicalChatbot == Words(<<"a", "chatbot", "for", "medical", "diagnosis">>)

ClassifierLines == ClassificationAnswers \cup {LineClassifyAsLimited, LineMedicalChatbot}

\* "\n".join(lines)
RECURSIVE JoinLines(_)
JoinLines(lines) ==
    IF Len(lines) = 0 THEN <<>>
    ELSE IF Len(lines) = 1 THEN lines[1]
    ELSE lines[1] \o <<"\n">> \o JoinLines(Tail(lines))

\* response.content.strip() of the oracle's answer: lines of text.
ClassifierResponses == {JoinLines(q) : q \in SeqsUpTo(ClassifierLines, MaxLines)}

ClassifierChunks == {ChunkWeather, ChunkChatbot, ChunkClinical, ChunkSocialCredit,
                     ChunkServiceBot}

InitDetermine ==
    /\ pc = "determine"
    /\ user_docs \in SeqsUpTo(ClassifierChunks, 1)
    /\ narrative \in ClassifierResponses
    /\ files = <<>>
    /\ top_k = 5
    /\ initial_type = "unset"
    /\ system_type = "unset"
    /\ documentary_evidence_of_prohibition = FALSE
    /\ results = NoResults
    /\ next_category = 1
    /\ total_score = 0
    /\ todo = <<>>
    /\ saved = <<>>
    /\ llm_calls = <<>>
    /\ retrieve_calls = <<>>
    /\ get_prompt_calls = <<>>
    /\ NoPromptLoaded
    /\ NoReferenceRun
    /\ extracted = "pending"

Determined(type) ==
    /\ initial_type' = type
    /\ pc' = "determined"
    /\ UNCHANGED <<reference_vars, files, top_k, user_docs, system_type,
                   documentary_evidence_of_prohibition, results, next_category,
                   total_score, todo, saved, retrieve_calls, narrative, extracted>>

\* Lines 254-355: one of the four weights reaches its threshold.
DetermineByPreCheck ==
    /\ pc = "determine"
    /\ PreCheck(AllText(user_docs)) # "none"
    /\ Determined(PreCheck(AllText(user_docs)))
    /\ UNCHANGED <<llm_calls, get_prompt_calls, prompt_vars>>

\* Lines 357-523: the oracle is asked and its answer is parsed.
DetermineByOracle ==
    /\ pc = "determine"
    /\ PreCheck(AllText(user_docs)) = "none"
    /\ GetPrompt(<<"system_classification">>)
    /\ llm_calls' = Append(llm_calls, LlmCall("system_classification", "-"))
    /\ Determined(ParseClassification(narrative, AllText(user_docs)))

NextDetermine == DetermineByPreCheck \/ DetermineByOracle

SpecDetermine == InitDetermine /\ [][NextDetermine]_vars

(***************************************************************************)
(* Properties of _determine_system_type_improved.                          *)
(***************************************************************************)

\* The oracle's answer has been parsed.
ParsedAnswer == pc = "determined" /\ Len(llm_calls) = 1

\* The five categories, in lookup order.
TypeOrder == <<"prohibited", "high-risk", "limited-risk", "minimal-risk", "general-purpose">>

\* The lines of a text.
RECURSIVE LinesOf(_)
LinesOf(text) ==
    LET breaks == {i \in 1..Len(text) : text[i] = "\n"}
    IN  IF breaks = {} THEN {text}
        ELSE LET b == CHOOSE i \in breaks : \A j \in breaks : i <= j
             IN  {SubSeq(text, 1, b - 1)} \cup LinesOf(SubSeq(text, b + 1, Len(text)))

\* The patterns of the k-th category that begin as "classify as" and
\* "classification:" do, and those for the bare name of the category.
StatementPatterns(k) ==
    {p \in {classification_patterns[k].patterns[i] :
                i \in 1..Len(classification_patterns[k].patterns)} : p[1] = Lit("classif")}
NamePatterns(k) ==
    {p \in {classification_patterns[k].patterns[i] :
                i \in 1..Len(classification_patterns[k].patterns)} : p[1] = BOS}

\* The text states the k-th category: "classify as", "classification:", or a
\* line that is the name of the category and nothing else.
StatesCategory(k, text) ==
    \/ \E p \in StatementPatterns(k) : re_search(p, text)
    \/ \E line \in LinesOf(text) : \E p \in NamePatterns(k) : re_search(p, line)

\* A pattern of the first layer is found for the k-th category.
FirstLayerMatch(k, text) ==
    \E i \in 1..Len(classification_patterns[k].patterns) :
        re_search(classification_patterns[k].patterns[i], text)

\* The first of the five categories that P holds of is the type returned.
ReturnsFirst(P(_)) ==
    \A k \in 1..Len(TypeOrder) :
        (P(k) /\ \A j \in 1..(k - 1) : ~P(j)) => initial_type = TypeOrder[k]

\* C22 as stated: an answer that states a category by "classify as",
\* "classification:" or a line of its own is classified as the first category
\* stated, in the order prohibited, high-risk, limited-risk, minimal-risk,
\* general-purpose.
C22_StatedCategoryIsReturned ==
    ParsedAnswer =>
        LET stated(k) == StatesCategory(k, Lower(narrative)) IN ReturnsFirst(stated)

\* C22: an answer in which a pattern of the first layer is found is classified
\* as the first category that has one, in the order prohibited, high-risk,
\* limited-risk, minimal-risk, general-purpose; the bare name of a category
\* counts only when it is the whole answer.
C22_FirstLayerCategoryIsReturned ==
    ParsedAnswer =>
        LET found(k) == FirstLayerMatch(k, Lower(narrative)) IN ReturnsFirst(found)

\* "classify as limited-risk" before "Classification: high-risk", with an
\* Article 5 line or without: high-risk is returned.
C22_Witness ==
    /\ ParsedAnswer
    /\ FirstLayerMatch(2, Lower(narrative))
    /\ FirstLayerMatch(3, Lower(narrative))
    /\ narrative[1] = "classif" /\ narrative[2] = "y"
    /\ initial_type = "high-risk"

\* The answer mentions Article 5 or uses the language of prohibition.
CitesArticle5(text) ==
    \E i \in 1..Len(article_5_patterns) : re_search(article_5_patterns[i], text)

\* No pattern of the first layer is found for any category.
NoFirstLayerMatch(text) ==
    \A k \in 1..Len(TypeOrder) : ~FirstLayerMatch(k, text)

\* C23 as stated: an answer that mentions Article 5 or uses the language of
\* prohibition is classified as prohibited, whatever else it says.
C23_CitationAlwaysProhibited ==
    (ParsedAnswer /\ CitesArticle5(Lower(narrative))) => initial_type = "prohibited"

\* C23: an answer that mentions Article 5 or uses the language of prohibition,
\* and in which no pattern of the first layer is found, is classified as
\* prohibited, whatever the keyword count would give.
C23_CitationProhibitedAfterFirstLayer ==
    (ParsedAnswer /\ CitesArticle5(Lower(narrative)) /\ NoFirstLayerMatch(Lower(narrative)))
        => initial_type = "prohibited"

\* An Article 5 line beside a line whose keywords count for limited-risk.
C23_Witness ==
    /\ ParsedAnswer
    /\ CitesArticle5(Lower(narrative))
    /\ NoFirstLayerMatch(Lower(narrative))
    /\ FrequencyAnalysis(Lower(narrative), AllText(user_docs)) = "limited-risk"
    /\ initial_type = "prohibited"

\* The keyword layer decides: neither a pattern of the first layer nor an
\* Article 5 reference is found in the answer.
KeywordLayerDecides ==
    /\ ParsedAnswer
    /\ NoFirstLayerMatch(Lower(narrative))
    /\ ~CitesArticle5(Lower(narrative))

\* The combined score of the k-th category: its keyword count and a third of
\* the weight of its pre-check bucket, rounded down.
CombinedScore(k) ==
    LET documentation_text == AllText(user_docs)
        weight == CASE TypeOrder[k] = "prohibited"   -> social_scoring_score(documentation_text)
                    [] TypeOrder[k] = "high-risk"    -> high_risk_score(documentation_text)
                    [] TypeOrder[k] = "limited-risk" -> limited_risk_score(documentation_text)
                    [] TypeOrder[k] = "minimal-risk" -> product_recommender_score(documentation_text)
                    [] OTHER                         -> 0
    IN  KeywordsScore(system_types[k].keywords, Lower(narrative)) + (weight \div 3)

CombinedScores ==
    <<CombinedScore(1), CombinedScore(2), CombinedScore(3), CombinedScore(4),
      CombinedScore(5)>>

Highest(scores) ==
    CHOOSE m \in {scores[k] : k \in 1..Len(scores)} : \A k \in 1..Len(scores) : scores[k] <= m

C28_FirstOfTiedCategories ==
    KeywordLayerDecides =>
        LET scores == CombinedScores
            best   == Highest(scores)
        IN  \A k \in 1..Len(TypeOrder) :
                (/\ best > 0
                 /\ scores[k] = best
                 /\ \A j \in 1..(k - 1) : scores[j] < best)
                    => initial_type = TypeOrder[k]

\* "a chatbot for medical diagnosis": high-risk and limited-risk tie.
C28_Witness ==
    /\ KeywordLayerDecides
    /\ initial_type = "high-risk"
    /\ LET scores == CombinedScores
       IN  /\ Highest(scores) > 0
           /\ scores[2] = Highest(scores)
           /\ scores[3] = Highest(scores)

(***************************************************************************)
(* The prompt module on any sequence of calls in one process.              *)
(***************************************************************************)
MaxPromptCalls == 3

InitPrompts ==
    /\ pc = "prompts"
    /\ prompt_source \in PromptSources
    /\ _PROMPTS_CACHE = <<>>
    /\ update_calls = 0
    /\ prompt_text = <<>>
    /\ get_prompt_calls = <<>>
    /\ NoReferenceRun
    /\ files = <<>>
    /\ top_k = 5
    /\ user_docs = <<>>
    /\ initial_type = "unset"
    /\ system_type = "unset"
    /\ documentary_evidence_of_prohibition = FALSE
    /\ results = NoResults
    /\ next_category = 1
    /\ total_score = 0
    /\ todo = <<>>
    /\ saved = <<>>
    /\ llm_calls = <<>>
    /\ retrieve_calls = <<>>
    /\ narrative = <<>>
    /\ extracted = "pending"

\* A call of get_prompt, with a name of the module or with another one.
CallGetPrompt ==
    /\ pc = "prompts"
    /\ Len(get_prompt_calls) < MaxPromptCalls
    /\ \E prompt_name \in PromptNames \cup {"gpai_assessment"} : GetPrompt(<<prompt_name>>)
    /\ UNCHANGED <<reference_vars, pc, files, top_k, user_docs, initial_type, system_type,
                   documentary_evidence_of_prohibition, results, next_category,
                   total_score, todo, saved, llm_calls, retrieve_calls, narrative,
                   extracted>>

\* A call of get_prompts.
CallGetPrompts ==
    /\ pc = "prompts"
    /\ _PROMPTS_CACHE' = get_prompts(_PROMPTS_CACHE, prompt_source)
    /\ update_calls' = update_calls + (IF _PROMPTS_CACHE = <<>> THEN 1 ELSE 0)
    /\ UNCHANGED <<prompt_source, prompt_text, get_prompt_calls>>
    /\ UNCHANGED <<reference_vars, pc, files, top_k, user_docs, initial_type, system_type,
                   documentary_evidence_of_prohibition, results, next_category,
                   total_score, todo, saved, llm_calls, retrieve_calls, narrative,
                   extracted>>

NextPrompts == CallGetPrompt \/ CallGetPrompts

SpecPrompts == InitPrompts /\ [][NextPrompts]_vars

(***************************************************************************)
(* Properties of the prompt module.                                        *)
(***************************************************************************)

\* The built-in prompt of a name, the empty string for a name without one.
BuiltIn(prompt_name) ==
    IF prompt_name \in {"system_classification", "prohibited_social_scoring",
                        "prohibited_manipulation", "high_risk_assessment"}
    THEN <<"default", prompt_name>> ELSE <<>>

\* C27: the prompt source is read at most once, by the first call; the cache
\* then holds the prompts it gave, or the built-in prompts if reading raised
\* or gave none, and stays as it is; a call of get_prompt returns the cached
\* prompt of the name, or the built-in one if the cache has none.
C27_LoadedOnceThenCached ==
    pc = "prompts" =>
        /\ update_calls <= 1
        /\ update_calls = 0 <=> _PROMPTS_CACHE = <<>>
        /\ get_prompt_calls # <<>> => update_calls = 1
        /\ _PROMPTS_CACHE # <<>> =>
               LET cached == _PROMPTS_CACHE[1] IN
               /\ IF prompt_source.outcome = "raises" \/ prompt_source.names = {}
                  THEN /\ DOMAIN cached = PromptNames
                       /\ \A n \in PromptNames : cached[n] = BuiltIn(n)
                  ELSE /\ DOMAIN cached = prompt_source.names
                       /\ \A n \in prompt_source.names : cached[n] = <<"pdf", n>>
               /\ get_prompt_calls # <<>> =>
                      LET n == get_prompt_calls[Len(get_prompt_calls)]
                      IN  prompt_text = IF n \in DOMAIN cached THEN cached[n] ELSE BuiltIn(n)

\* Three calls on a PDF that holds the classification prompt alone: the last
\* one asks for a name the cache has not and is given the built-in prompt.
C27_Witness ==
    /\ pc = "prompts"
    /\ prompt_source.names = {"system_classification"}
    /\ get_prompt_calls = <<"system_classification", "data_governance", "high_risk_assessment">>
    /\ update_calls = 1
    /\ prompt_text = <<"default", "high_risk_assessment">>


(***************************************************************************)
(* The reference store: runs of process_eu_ai_act, of main.py and of the   *)
(* script process_eu_ai_act.py, on one data directory and one index.       *)
(* output_file and vector_ids_file tell whether eu_ai_act_chunks.json and  *)
(* eu_ai_act_vector_ids.json exist; namespace counts the copies of the     *)
(* chunks held by the namespace "eu_ai_act" (store_embeddings upserts      *)
(* every chunk under a fresh uuid4, so each store adds one copy).          *)
(***************************************************************************)
MaxRuns == 3

InitReference ==
    /\ pc = "reference"
    /\ NoReferenceRun
    /\ NoPromptLoaded
    /\ get_prompt_calls = <<>>
    /\ files = <<>>
    /\ top_k = 5
    /\ user_docs = <<>>
    /\ initial_type = "unset"
    /\ system_type = "unset"
    /\ documentary_evidence_of_prohibition = FALSE
    /\ results = NoResults
    /\ next_category = 1
    /\ total_score = 0
    /\ todo = <<>>
    /\ saved = <<>>
    /\ llm_calls = <<>>
    /\ retrieve_calls = <<>>
    /\ narrative = <<>>
    /\ extracted = "pending"

\* EmbeddingGenerator.delete_namespace: the namespace holds nothing.
delete_namespace(copies) == 0

\* EmbeddingGenerator.store_embeddings: one more copy of the chunks.
store_embeddings(copies) == copies + 1

\* The calls made on the index by a run that deletes first or does not.
IndexCalls(delete) ==
    IF delete THEN <<"delete_namespace", "store_embeddings">> ELSE <<"store_embeddings">>

\* The namespace after these calls.
AfterIndexCalls(copies, delete) ==
    store_embeddings(IF delete THEN delete_namespace(copies) ELSE copies)

\* main.process_eu_ai_act(force_reprocess), the step of main() taken unless
\* --skip-eu-ai-act is given.  It returns at once if eu_ai_act_chunks.json
\* exists and force_reprocess is off; it writes no file.
MainProcessEuAiAct ==
    /\ pc = "reference"
    /\ Len(reference_runs) < MaxRuns
    /\ \E force_reprocess \in BOOLEAN :
          LET skipped == output_file /\ ~force_reprocess
              after == IF skipped THEN namespace
                       ELSE AfterIndexCalls(namespace, force_reprocess)
          IN  /\ namespace' = after
              /\ reference_runs' = Append(reference_runs,
                     [entry |-> "main", force |-> force_reprocess,
                      calls |-> IF skipped THEN <<>> ELSE IndexCalls(force_reprocess),
                      copies |-> after])
    /\ UNCHANGED <<output_file, vector_ids_file>>
    /\ UNCHANGED <<prompt_vars, get_prompt_calls, pc, files, top_k, user_docs, initial_type,
                   system_type, documentary_evidence_of_prohibition, results,
                   next_category, total_score, todo, saved, llm_calls, retrieve_calls,
                   narrative, extracted>>

\* process_eu_ai_act of the script process_eu_ai_act.py: it saves
\* eu_ai_act_chunks.json when it processes the PDF, returns before the index
\* if eu_ai_act_vector_ids.json exists and no force flag is on, and saves
\* eu_ai_act_vector_ids.json after storing.
ScriptProcessEuAiAct ==
    /\ pc = "reference"
    /\ Len(reference_runs) < MaxRuns
    /\ \E store \in BOOLEAN, force_reprocess \in BOOLEAN, force_embeddings \in BOOLEAN :
          LET force == force_reprocess \/ force_embeddings
              stores == store /\ ~(vector_ids_file /\ ~force)
              after == IF stores THEN AfterIndexCalls(namespace, force) ELSE namespace
          IN  /\ output_file' = TRUE
              /\ vector_ids_file' = (vector_ids_file \/ stores)
              /\ namespace' = after
              /\ reference_runs' = Append(reference_runs,
                     [entry |-> "script", force |-> force,
                      calls |-> IF stores THEN IndexCalls(force) ELSE <<>>,
                      copies |-> after])
    /\ UNCHANGED <<prompt_vars, get_prompt_calls, pc, files, top_k, user_docs, initial_type,
                   system_type, documentary_evidence_of_prohibition, results,
                   next_category, total_score, todo, saved, llm_calls, retrieve_calls,
                   narrative, extracted>>

NextReference == MainProcessEuAiAct \/ ScriptProcessEuAiAct

SpecReference == InitReference /\ [][NextReference]_vars

(***************************************************************************)
(* Properties of the reference store.                                      *)
(***************************************************************************)

\* C30: of two runs of main in a row without --force the second makes no
\* call on the index and the namespace holds at most one copy of the chunks;
\* a run of main with --force deletes the namespace and then stores.
C30_SecondRunStoresNothing ==
    pc = "reference" =>
        \A i \in 1..Len(reference_runs) :
            LET run == reference_runs[i] IN
            run.entry = "main" =>
                /\ run.force => run.calls = <<"delete_namespace", "store_embeddings">>
                /\ (/\ ~run.force
                    /\ i > 1
                    /\ reference_runs[i - 1].entry = "main"
                    /\ ~reference_runs[i - 1].force)
                   => /\ run.calls = <<>>
                      /\ run.copies <= 1

\* What the code does keep: a run of main with --force leaves exactly one
\* copy, and a run of main without it makes no call when
\* eu_ai_act_chunks.json exists, which only the script writes.
ReferenceRunsOfMain ==
    pc = "reference" =>
        \A i \in 1..Len(reference_runs) :
            LET run == reference_runs[i] IN
            run.entry = "main" =>
                /\ run.force => /\ run.calls = <<"delete_namespace", "store_embeddings">>
                                /\ run.copies = 1
                /\ ~run.force =>
                       run.calls = IF \E j \in 1..(i - 1) : reference_runs[j].entry = "script"
                                   THEN <<>> ELSE <<"store_embeddings">>

\* Two runs of main without --force from a clean directory: both store.
TwoRunsOfMainStoreTwice ==
    /\ Len(reference_runs) = 2
    /\ \A i \in 1..2 : /\ reference_runs[i].entry = "main"
                       /\ ~reference_runs[i].force
                       /\ reference_runs[i].calls = <<"store_embeddings">>
    /\ namespace = 2

====
